---- MODULE Spec2Model ----
(***************************************************************************)
(* A model of tibber-httpclient (src/src/http-client.ts): the HttpClient   *)
(* constructor, the options composer (#processOptions), the request cycle  *)
(* (#request, #requestJson) and the error classifier (#logAndCreateError). *)
(*                                                                         *)
(* JavaScript values are tagged records, so that values of different       *)
(* JavaScript types can be compared.  Strings that the code only passes    *)
(* around are TLA+ strings; strings the code computes on (header values,   *)
(* credentials, paths) are sequences of one-character strings.             *)
(***************************************************************************)
EXTENDS Integers, Sequences, FiniteSets, TLC

VARIABLES
    client,     \* the constructed HttpClient: its init params and got defaults
    pc,         \* position of the one call in flight: idle, inflight, settled, done
    call,       \* the arguments of the current call of get/post/put/patch/delete
    opts,       \* the RequestOptions #processOptions composed for the call
    req,        \* what #request handed to got: path and headers on the wire
    signal,     \* the caller's AbortSignal: none, armed, fired
    canceled,   \* responsePromise.cancel() has been called on the pending promise
    outcome,    \* how the got promise settled
    result,     \* what the call gave its caller: a return value or a thrown value
    logged,     \* HttpLogger invocations made during the current call
    genCalls,   \* how often the header generator has been invoked
    nCalls,     \* calls completed on this client
    redaction,  \* the options object the log redaction works on, and its result
    cached,     \* a CachedClient around the client: its NodeCache and its call
    double,     \* a TestHttpClient: its routing table, call logs and last call
    logging     \* an HttpLogger called on its own: its arguments and what it emitted

vars == <<client, pc, call, opts, req, signal, canceled, outcome, result, logged, genCalls, nCalls,
          redaction, cached, double, logging>>

\* the objects beside the HttpClient, which its own operations never touch
beside == <<redaction, cached, double, logging>>

-----------------------------------------------------------------------------
(* JavaScript values *)

Undefined == [t |-> "undefined"]
Null == [t |-> "null"]
JStr(s) == [t |-> "string", v |-> s]
\* a string the code computes on, as its sequence of characters
JChars(c) == [t |-> "chars", v |-> c]
JNum(n) == [t |-> "number", v |-> n]
JBool(b) == [t |-> "boolean", v |-> b]
JObj(f) == [t |-> "object", v |-> f]

\* JavaScript truthiness, as used by `a && b`, `if (x)` and `x || y`
Truthy(x) ==
    CASE x.t = "undefined" -> FALSE
      [] x.t = "null" -> FALSE
      [] x.t = "string" -> x.v # ""
      [] x.t = "chars" -> Len(x.v) > 0
      [] x.t = "number" -> x.v # 0
      [] x.t = "boolean" -> x.v
      [] OTHER -> TRUE

\* `a ?? b`
Nullish(x) == x.t \in {"undefined", "null"}
Coalesce(a, b) == IF Nullish(a) THEN b ELSE a

\* an object literal: a function from its own keys to values
EmptyObj == [k \in {} |-> Undefined]
HasKey(o, k) == k \in DOMAIN o
Get(o, k) == IF k \in DOMAIN o THEN o[k] ELSE Undefined
\* `{ ...a, ...b }` on objects whose key order does not matter
Spread(a, b) == [k \in DOMAIN a \cup DOMAIN b |-> IF k \in DOMAIN b THEN b[k] ELSE a[k]]
\* `const { k1, k2, ...rest } = o`
Rest(o, ks) == [k \in DOMAIN o \ ks |-> o[k]]

-----------------------------------------------------------------------------
(* Header objects: key order is kept, because got lower-cases header names  *)
(* and the later of two names that collide wins.                           *)

H(k, v) == [k |-> k, v |-> v]

HKeys(h) == {h[i].k : i \in 1..Len(h)}
HHas(h, k) == k \in HKeys(h)
HIndex(h, k) == CHOOSE i \in 1..Len(h) : h[i].k = k
HGet(h, k) == h[HIndex(h, k)].v

\* `o[k] = v`: an existing key keeps its place, a new key goes last
HPut(h, k, v) ==
    IF HHas(h, k)
    THEN [i \in 1..Len(h) |-> IF h[i].k = k THEN H(k, v) ELSE h[i]]
    ELSE Append(h, H(k, v))

RECURSIVE HSpread(_, _)
\* `{ ...a, ...b }` on header objects
HSpread(a, b) ==
    IF b = <<>> THEN a ELSE HSpread(HPut(a, Head(b).k, Head(b).v), Tail(b))

\* String.prototype.toLowerCase on the header names the model uses
LowerName(n) ==
    CASE n = "Authorization" -> "authorization"
      [] n = "nonHeader" -> "nonheader"
      [] n = "A" -> "a"
      [] n = "B" -> "b"
      [] OTHER -> n

RECURSIVE LowercaseKeysFrom(_, _)
LowercaseKeysFrom(acc, h) ==
    IF h = <<>> THEN acc
    ELSE LowercaseKeysFrom(HPut(acc, LowerName(Head(h).k), Head(h).v), Tail(h))

\* got normalises every headers object it is given to lower-case names
LowercaseKeys(h) == LowercaseKeysFrom(<<>>, h)

-----------------------------------------------------------------------------
(* Buffer.from(s).toString('base64') on ASCII text *)

\* the printable ASCII characters in code order, from 32 (space) to 126;
\* the double quote, the backslash and the backtick are written <dq>, <bs>, <bt>
AsciiChars ==
    <<
    " ", "!", "<dq>", "#", "$", "%", "&", "'", "(", ")", "*", "+", ",", "-", ".", "/",
    "0", "1", "2", "3", "4", "5", "6", "7", "8", "9", ":", ";", "<", "=", ">", "?",
    "@", "A", "B", "C", "D", "E", "F", "G", "H", "I", "J", "K", "L", "M", "N", "O",
    "P", "Q", "R", "S", "T", "U", "V", "W", "X", "Y", "Z", "[", "<bs>", "]", "^", "_",
    "<bt>", "a", "b", "c", "d", "e", "f", "g", "h", "i", "j", "k", "l", "m", "n", "o",
    "p", "q", "r", "s", "t", "u", "v", "w", "x", "y", "z", "{", "|", "}", "~" >>

\* the byte Buffer.from gives an ASCII character: AsciiChars[1] is code 32
CharCode(c) == 31 + (CHOOSE i \in 1..Len(AsciiChars) : AsciiChars[i] = c)

Bytes(s) == [i \in 1..Len(s) |-> CharCode(s[i])]

\* the base64 alphabet of RFC 4648, value 0 first
Base64Chars ==
    <<
    "A", "B", "C", "D", "E", "F", "G", "H", "I", "J", "K", "L", "M", "N", "O", "P",
    "Q", "R", "S", "T", "U", "V", "W", "X", "Y", "Z", "a", "b", "c", "d", "e", "f",
    "g", "h", "i", "j", "k", "l", "m", "n", "o", "p", "q", "r", "s", "t", "u", "v",
    "w", "x", "y", "z", "0", "1", "2", "3", "4", "5", "6", "7", "8", "9", "+", "/" >>

B64(n) == Base64Chars[n + 1]

RECURSIVE Base64Bytes(_)
\* three bytes become four characters; a last group of one or two bytes is
\* padded with "="
Base64Bytes(b) ==
    CASE Len(b) = 0 -> <<>>
      [] Len(b) = 1 ->
            <<B64(b[1] \div 4), B64((b[1] % 4) * 16), "=", "=">>
      [] Len(b) = 2 ->
            <<B64(b[1] \div 4), B64((b[1] % 4) * 16 + b[2] \div 16),
              B64((b[2] % 16) * 4), "=">>
      [] OTHER ->
            <<B64(b[1] \div 4), B64((b[1] % 4) * 16 + b[2] \div 16),
              B64((b[2] % 16) * 4 + b[3] \div 64), B64(b[3] % 64)>>
            \o Base64Bytes(SubSeq(b, 4, Len(b)))

\* Buffer.from(s).toString('base64')
ToBase64(s) == Base64Bytes(Bytes(s))

-----------------------------------------------------------------------------
(* HttpClient: construction *)

BasicPrefix == <<"B", "a", "s", "i", "c", " ">>
BearerPrefix == <<"B", "e", "a", "r", "e", "r", " ">>

\* the template `Basic ${Buffer.from(`${userName}:${password}`).toString('base64')}`
BasicAuthValue(userName, password) ==
    BasicPrefix \o ToBase64(userName \o <<":">> \o password)

\* the template `Bearer ${bearerToken}`
BearerAuthValue(bearerToken) == BearerPrefix \o bearerToken

\* const addToHeader = (header) => { gotOptions.headers ??= header;
\*                                   gotOptions.headers = { ...gotOptions.headers, ...header } }
AddToHeader(gotOptions, header) ==
    LET had == IF HasKey(gotOptions, "headers") THEN gotOptions["headers"] ELSE header
    IN  Spread(gotOptions, "headers" :> HSpread(had, header))

\* mutant: the bearer token is looked at first
AuthHeader_BearerFirst(config) ==
    IF Truthy(Get(config, "bearerToken"))
    THEN <<H("Authorization", BearerAuthValue(config["bearerToken"].v))>>
    ELSE IF Truthy(Get(config, "basicAuthUserName")) /\ Truthy(Get(config, "basicAuthPassword"))
    THEN <<H("Authorization",
             BasicAuthValue(config["basicAuthUserName"].v, config["basicAuthPassword"].v))>>
    ELSE <<>>

\* the Authorization header the constructor derives from config, if any
AuthHeader(config) ==
    IF Truthy(Get(config, "basicAuthUserName")) /\ Truthy(Get(config, "basicAuthPassword"))
    THEN <<H("Authorization",
             BasicAuthValue(config["basicAuthUserName"].v, config["basicAuthPassword"].v))>>
    ELSE IF Truthy(Get(config, "bearerToken"))
    THEN <<H("Authorization", BearerAuthValue(config["bearerToken"].v))>>
    ELSE <<>>

\* { retry: {}, ...initParams?.options,
\*   context: { ...initParams?.options?.context, ...initParams?.config } }
BaseGotOptions(p) ==
    LET context == IF HasKey(p.options, "context") THEN p.options["context"] ELSE EmptyObj
    IN  Spread(Spread("retry" :> JObj(EmptyObj), p.options),
               "context" :> Spread(context, p.config))

WithPrefixUrl(gotOptions, p) ==
    IF p.prefixUrl # Undefined
    THEN Spread(gotOptions, "prefixUrl" :> p.prefixUrl)
    ELSE gotOptions

WithAuth(gotOptions, p) ==
    IF AuthHeader(p.config) # <<>>
    THEN AddToHeader(gotOptions, AuthHeader(p.config))
    ELSE gotOptions

\* initParams.logger.constructor?.name === 'Pino' ? new PinoLogger : new GenericLogger;
\* NoOpLogger when no logger is given
LoggerFor(p) ==
    CASE p.logger = "none" -> "NoOpLogger"
      [] p.logger = "Pino" -> "PinoLogger"
      [] OTHER -> "GenericLogger"

\* new HttpClient(initParams): gotOptions are the defaults of got.extend
HttpClient(p) ==
    [ init |-> p,
      gotOptions |-> WithAuth(WithPrefixUrl(BaseGotOptions(p), p), p),
      prefixUrl |-> p.prefixUrl,
      logger |-> LoggerFor(p),
      headerFunc |-> p.headerFunc ]

-----------------------------------------------------------------------------
(* The options composer *)

NoHeaders == <<>>

\* options?.headers, spread: an absent options or headers object spreads to nothing
HeadersOf(options) == IF HasKey(options, "headers") THEN options["headers"] ELSE NoHeaders

\* if (options?.isForm) 'form' else if (data !== undefined && data !== null) 'json'
JsonOrForm(data, options) ==
    IF Truthy(Get(options, "isForm")) THEN "form"
    ELSE IF data # Undefined /\ data # Null THEN "json"
    ELSE "none"

\* mutant: the generator's headers are spread under the per-call headers
ComputedHeaders_GeneratorUnder(options, generated) == HSpread(generated, HeadersOf(options))

\* { ...options?.headers, ...this.#headerFunc?.() }
ComputedHeaders(options, generated) == HSpread(HeadersOf(options), generated)

\* #processOptions(method, data, options); `generated` is what this call's
\* invocation of the header generator returned (nothing without a generator)
ProcessOptions(method, data, options, generated) ==
    LET jsonOrForm == JsonOrForm(data, options)
        optionsWithComputedHeaders ==
            Spread(options, "headers" :> ComputedHeaders(options, generated))
        gotOptions == Rest(optionsWithComputedHeaders, {"isForm"})
        body == IF jsonOrForm # "none" THEN jsonOrForm :> data ELSE EmptyObj
    IN  Spread(Spread(gotOptions, body), "method" :> method)

-----------------------------------------------------------------------------
(* The request executor *)

\* mutant: every leading slash is stripped
SanitizedPath_EverySlash(path) == SelectSeq(path, LAMBDA c : c # "/")

\* path.startsWith('/') ? path.slice(1) : path
SanitizedPath(path) == IF Len(path) > 0 /\ path[1] = "/" THEN Tail(path) ELSE path

\* got merges the per-call headers into the instance defaults, both with
\* lower-cased names
WireHeaders(defaults, perCall) ==
    HSpread(LowercaseKeys(HeadersOf(defaults)), LowercaseKeys(HeadersOf(perCall)))

\* mutant: #request never adds the abort listener
ListensForAbort_Never(options) == FALSE

\* if (abortSignal) abortSignal.addEventListener('abort', () => responsePromise.cancel()):
\* whether an abort event delivered to the signal cancels the pending promise
ListensForAbort(options) == HasKey(options, "abortSignal")

\* #request: const { abortSignal, ...gotOptions } = options;
\* this.#got(path, { ...gotOptions }); then the abort listener
Request(c, path, options) ==
    [ path |-> path,
      options |-> Rest(options, {"abortSignal"}),
      headers |-> WireHeaders(c.gotOptions, options),
      listening |-> ListensForAbort(options) ]

-----------------------------------------------------------------------------
(* Responses and errors of the transport *)

\* a response body: whether it is a string, whether JSON.parse accepts it,
\* and the value JSON.parse gives (the text itself when it does not parse)
JsonBody(v) == [str |-> TRUE, valid |-> TRUE, value |-> v]
TextBody(text) == [str |-> TRUE, valid |-> FALSE, value |-> JStr(text)]
NoBody == [str |-> FALSE, valid |-> FALSE, value |-> Undefined]

\* contentType is the content-type header as its sequence of parts, <<>> when
\* the response has no such header
Response(statusCode, contentType, body) ==
    [present |-> TRUE, statusCode |-> statusCode, contentType |-> contentType, body |-> body]
NoResponse ==
    [present |-> FALSE, statusCode |-> 0, contentType |-> <<>>, body |-> NoBody]

ErrorValue(class, message, code, response) ==
    [t |-> class, message |-> message, stack |-> "stack", code |-> code, response |-> response]

\* the classes for which `x instanceof Error` holds
ErrorClasses == {"Error", "SyntaxError", "TypeError", "RequestError", "HTTPError", "CancelError"}
IsError(x) == x.t \in ErrorClasses
\* error instanceof HTTPError || error instanceof CancelError
IsHttpOrCancel(x) == x.t \in {"HTTPError", "CancelError"}

\* JSON.parse(body): throws a SyntaxError unless body is a string of valid JSON
JsonParse(body) == [threw |-> ~(body.str /\ body.valid), value |-> body.value]
JsonSyntaxError == ErrorValue("SyntaxError", "Unexpected token", Undefined, NoResponse)

\* String.prototype.includes on a content type
Includes(contentType, part) == \E i \in 1..Len(contentType) : contentType[i] = part

-----------------------------------------------------------------------------
(* The exceptions *)

\* new RequestException({ message, statusCode, innerError, stack, responseBody })
RequestException(message, statusCode, innerError, stack, responseBody) ==
    [ t |-> "RequestException",
      message |-> message,
      statusCode |-> statusCode,
      innerError |-> innerError,
      stack |-> stack,
      responseBody |-> responseBody ]

\* mutant: the constructor assigns detail and instance crosswise and drops
\* the extensions
ProblemDetailsError_MixesFields(detail, instance, title, type, extensions, statusCode, innerError) ==
    [ t |-> "ProblemDetailsError",
      message |-> <<innerError.message>>,
      statusCode |-> statusCode,
      innerError |-> innerError,
      stack |-> innerError.stack,
      responseBody |-> Undefined,
      detail |-> instance,
      type |-> type,
      instance |-> detail,
      title |-> title,
      extensions |-> EmptyObj ]

\* new ProblemDetailsError(args): super({ stack: innerError.stack,
\*   message: innerError.message, innerError, statusCode }), then the five fields
ProblemDetailsError(detail, instance, title, type, extensions, statusCode, innerError) ==
    [ t |-> "ProblemDetailsError",
      message |-> <<innerError.message>>,
      statusCode |-> statusCode,
      innerError |-> innerError,
      stack |-> innerError.stack,
      responseBody |-> Undefined,
      detail |-> detail,
      type |-> type,
      instance |-> instance,
      title |-> title,
      extensions |-> extensions ]

\* x instanceof RequestException (ProblemDetailsError extends RequestException)
IsRequestException(x) == x.t \in {"RequestException", "ProblemDetailsError"}

-----------------------------------------------------------------------------
(* The error classifier *)

\* a template literal prints undefined as "undefined"
Shown(x) == IF x = Undefined THEN "undefined" ELSE x.v

\* mutant: the message is the inner message alone
UrlMessage_Unprefixed(c, path, message) == <<message>>

\* the template `${this.#prefixUrl}/${path} ${message}`
UrlMessage(c, path, message) == <<Shown(c.prefixUrl), "/">> \o path \o <<" ", message>>

\* mutant: the status code is read from the response alone
StatusOrCode_ResponseOnly(error) ==
    IF error.response.present THEN JNum(error.response.statusCode) ELSE Undefined

\* error.response?.statusCode ?? error.code
StatusOrCode(error) ==
    Coalesce(IF error.response.present THEN JNum(error.response.statusCode) ELSE Undefined,
             error.code)

\* error.response?.headers['content-type'] ?? ''
ContentTypeOf(error) == IF error.response.present THEN error.response.contentType ELSE <<>>

\* (contentType.includes('application/problem+json') || contentType.includes('application/json'))
\*   && typeof error.response?.body === 'string'
TriesJson(error) ==
    /\ \/ Includes(ContentTypeOf(error), "application/problem+json")
       \/ Includes(ContentTypeOf(error), "application/json")
    /\ error.response.present
    /\ error.response.body.str

ProblemDetailsKeys == {"detail", "instance", "title", "type"}

\* if (type && title)
HasProblemShape(type, title) == Truthy(type) /\ Truthy(title)

\* the last branch: a RequestException around an Error, anything else as it is
GenericFailure(c, error, path, code) ==
    IF IsError(error)
    THEN RequestException(UrlMessage(c, path, error.message), code, error, error.stack, Undefined)
    ELSE error

\* the branch taken once JSON.parse of the error body has succeeded
ParsedFailure(c, error, path, code, responseBody) ==
    IF Includes(ContentTypeOf(error), "application/json")
    THEN RequestException(UrlMessage(c, path, error.message), code, error, error.stack,
                          responseBody)
    ELSE IF Nullish(responseBody)
    THEN \* destructuring null throws a TypeError, which the catch swallows
         GenericFailure(c, error, path, code)
    ELSE LET fields == IF responseBody.t = "object" THEN responseBody.v ELSE EmptyObj
             type == Get(fields, "type")
             title == Get(fields, "title")
         IN  IF HasProblemShape(type, title)
             THEN ProblemDetailsError(Get(fields, "detail"), Get(fields, "instance"),
                                      title, type, Rest(fields, ProblemDetailsKeys),
                                      code, error)
             ELSE GenericFailure(c, error, path, code)

\* the value #logAndCreateError returns, which #requestJson throws
CreateError(c, error, path) ==
    LET code == IF IsHttpOrCancel(error) THEN StatusOrCode(error) ELSE Undefined
    IN  IF IsHttpOrCancel(error) /\ TriesJson(error)
        THEN LET parsed == JsonParse(error.response.body)
             IN  IF parsed.threw
                 THEN GenericFailure(c, error, path, code)
                 ELSE ParsedFailure(c, error, path, code, parsed.value)
        ELSE GenericFailure(c, error, path, code)

\* mutant: logFailure is invoked for every caught value
FailureLog_EveryError(error) == <<[path |-> "logFailure", error |-> "any"]>>

\* the logFailure invocations #logAndCreateError makes
FailureLog(error) ==
    IF IsHttpOrCancel(error) THEN <<[path |-> "logFailure", error |-> error.t]>> ELSE <<>>

\* the logSuccess invocation #requestJson makes
SuccessLog(options) == <<[path |-> "logSuccess", method |-> options["method"]]>>

-----------------------------------------------------------------------------
(* One call of get/post/put/patch/delete *)

VerbsAll == {"GET", "POST", "PUT", "PATCH", "DELETE"}

MaxCalls == 2

Returned(v) == [kind |-> "return", value |-> v]
Thrown(v) == [kind |-> "throw", value |-> v]
Fulfilled(response) == [kind |-> "fulfilled", response |-> response]
Rejected(error) == [kind |-> "rejected", error |-> error]

NoCall == [verb |-> "none"]
NoRequest == [path |-> <<>>, options |-> EmptyObj, headers |-> NoHeaders, listening |-> FALSE]
NoOutcome == [kind |-> "none"]
NoResult == [kind |-> "none"]

\* the state of the AbortSignal the caller passed, if any
SignalOf(options) ==
    IF ~HasKey(options, "abortSignal") THEN "none"
    ELSE IF options["abortSignal"].aborted THEN "aborted"
    ELSE "armed"

\* get/post/put/patch/delete up to the await in #requestJson: compose the
\* options, strip the path, hand the request to got, listen for an abort.
\* get passes no payload; the other verbs pass the caller's.
Call(Verbs, Paths, Datas, Options, Generated) ==
    /\ pc = "idle"
    /\ nCalls < MaxCalls
    /\ \E verb \in Verbs, path \in Paths, options \in Options :
       \E data \in (IF verb = "GET" THEN {Undefined} ELSE Datas) :
       \E generated \in (IF client.headerFunc THEN Generated ELSE {NoHeaders}) :
            /\ call' = [verb |-> verb, path |-> path, data |-> data,
                        options |-> options, generated |-> generated]
            /\ opts' = ProcessOptions(verb, data, options, generated)
            /\ req' = Request(client, SanitizedPath(path), opts')
            /\ signal' = SignalOf(options)
    /\ genCalls' = IF client.headerFunc THEN genCalls + 1 ELSE genCalls
    /\ pc' = "inflight"
    /\ canceled' = FALSE
    /\ outcome' = NoOutcome
    /\ result' = NoResult
    /\ logged' = <<>>
    /\ UNCHANGED <<client, nCalls>>
    /\ UNCHANGED beside

\* the caller's AbortController aborts: the listener, if one was added,
\* calls responsePromise.cancel(), which acts only on a pending promise
Abort ==
    /\ signal = "armed"
    /\ pc \in {"inflight", "settled"}
    /\ signal' = IF pc = "inflight" THEN "fired" ELSE "late"
    /\ canceled' = (canceled \/ (req.listening /\ pc = "inflight"))
    /\ UNCHANGED <<client, pc, call, opts, req, outcome, result, logged, genCalls, nCalls>>
    /\ UNCHANGED beside

\* a promise canceled while pending rejects with a CancelError; it carries
\* the response when the response headers had already arrived
CancelError(response) ==
    ErrorValue("CancelError", "Promise was canceled", JStr("ERR_CANCELED"), response)

SettleCanceled(Partial) ==
    /\ pc = "inflight"
    /\ canceled
    /\ \E response \in Partial : outcome' = Rejected(CancelError(response))
    /\ pc' = "settled"
    /\ UNCHANGED <<client, call, opts, req, signal, canceled, result, logged, genCalls, nCalls>>
    /\ UNCHANGED beside

\* the got promise settles on its own: fulfilled with a response, or rejected
Settle(Outcomes) ==
    /\ pc = "inflight"
    /\ ~canceled
    /\ outcome' \in Outcomes
    /\ pc' = "settled"
    /\ UNCHANGED <<client, call, opts, req, signal, canceled, result, logged, genCalls, nCalls>>
    /\ UNCHANGED beside

\* #requestJson after the await: logSuccess and JSON.parse of the body, or the
\* catch block throwing what #logAndCreateError returns; delete returns undefined
RequestJson(c, verb, path, options, settled) ==
    IF settled.kind = "fulfilled"
    THEN LET parsed == JsonParse(settled.response.body)
         IN  IF parsed.threw
             THEN [ result |-> Thrown(CreateError(c, JsonSyntaxError, path)),
                    logged |-> SuccessLog(options) \o FailureLog(JsonSyntaxError) ]
             ELSE [ result |-> Returned(IF verb = "DELETE" THEN Undefined ELSE parsed.value),
                    logged |-> SuccessLog(options) ]
    ELSE [ result |-> Thrown(CreateError(c, settled.error, path)),
           logged |-> FailureLog(settled.error) ]

Complete ==
    /\ pc = "settled"
    /\ LET done == RequestJson(client, call.verb, req.path, opts, outcome)
       IN  /\ result' = done.result
           /\ logged' = done.logged
    /\ pc' = "done"
    /\ nCalls' = nCalls + 1
    /\ UNCHANGED <<client, call, opts, req, signal, canceled, outcome, genCalls>>
    /\ UNCHANGED beside

\* the promise of the call has settled and its caller has the result; the
\* client holds no per-call state and takes the next call
Return ==
    /\ pc = "done"
    /\ pc' = "idle"
    /\ call' = NoCall
    /\ opts' = EmptyObj
    /\ req' = NoRequest
    /\ signal' = "none"
    /\ canceled' = FALSE
    /\ outcome' = NoOutcome
    /\ result' = NoResult
    /\ logged' = <<>>
    /\ UNCHANGED <<client, genCalls, nCalls>>
    /\ UNCHANGED beside

\* no redaction under way, no CachedClient and no TestHttpClient constructed,
\* no logger called on its own
NoRedaction == [pc |-> "none"]
NoCached == [pc |-> "none"]
NoDouble == [pc |-> "none"]
NoLogging == [pc |-> "none"]

\* the HttpClient after construction, idle
Constructed(Params) ==
    /\ client \in {HttpClient(p) : p \in Params}
    /\ pc = "idle"
    /\ call = NoCall
    /\ opts = EmptyObj
    /\ req = NoRequest
    /\ signal = "none"
    /\ canceled = FALSE
    /\ outcome = NoOutcome
    /\ result = NoResult
    /\ logged = <<>>
    /\ genCalls = 0
    /\ nCalls = 0

InitWith(Params) ==
    /\ Constructed(Params)
    /\ redaction = NoRedaction
    /\ cached = NoCached
    /\ double = NoDouble
    /\ logging = NoLogging

-----------------------------------------------------------------------------
(* Inputs *)

Chars_myname == <<"m", "y", "n", "a", "m", "e">>
Chars_1234 == <<"1", "2", "3", "4">>
Chars_tok == <<"t", "o", "k">>

Params(prefixUrl, config, options, headerFunc, logger) ==
    [ prefixUrl |-> prefixUrl, config |-> config, options |-> options,
      headerFunc |-> headerFunc, logger |-> logger ]

ServerUrl == JStr("http://localhost:38080")

PathsAll == {<<"todos">>, <<"/", "todos">>, <<"/", "/", "todos">>}

FreshSignal == [t |-> "AbortSignal", aborted |-> FALSE]
AbortedSignal == [t |-> "AbortSignal", aborted |-> TRUE]

Payload == JObj([userId |-> JNum(1), title |-> JStr("title post")])

\* error bodies
ProblemBody ==
    JObj([type |-> JStr("about:blank"), title |-> JStr("Bad Request"),
          detail |-> JStr("x is required")])
FullProblemBody ==
    JObj([type |-> JStr("https://example.com/probs/out-of-credit"),
          title |-> JStr("You do not have enough credit."),
          detail |-> JStr("Your current balance is 30"),
          instance |-> JStr("/account/12345/msgs/abc"),
          balance |-> JNum(30), traceId |-> JStr("t-1")])
MinimalProblemBody == JObj([type |-> JStr("about:blank"), title |-> JStr("Not Found")])
EmptyTitleBody == JObj([type |-> JStr("about:blank"), title |-> JStr("")])
NoTypeBody == JObj([title |-> JStr("Bad Request"), detail |-> JStr("x is required")])
PlainBody == JObj([message |-> JStr("nope")])

ErrorBodies ==
    { JsonBody(ProblemBody), JsonBody(FullProblemBody), JsonBody(MinimalProblemBody),
      JsonBody(EmptyTitleBody), JsonBody(NoTypeBody), JsonBody(PlainBody),
      JsonBody(Null), JsonBody(JStr("oops")), TextBody("400 Bad Request"), NoBody }

ContentTypes ==
    { <<>>, <<"text/plain">>,
      <<"application/json">>, <<"application/json", "; charset=utf-8">>,
      <<"application/problem+json">>, <<"application/problem+json", "; charset=utf-8">>,
      <<"application/problem+json", ", ", "application/json">> }

ErrorStatuses == {400, 500}

ErrorResponses ==
    {Response(st, ct, b) : st \in ErrorStatuses, ct \in ContentTypes, b \in ErrorBodies}

\* got rejects a response outside 2xx/3xx with an HTTPError that carries it
HTTPError(response) ==
    ErrorValue("HTTPError", "Response code", JStr("ERR_NON_2XX_3XX_RESPONSE"), response)

\* a failure without a response: connection refused, timeout, DNS
NetworkError == ErrorValue("RequestError", "connect ECONNREFUSED", JStr("ECONNREFUSED"), NoResponse)

\* a thrown value that is not an Error
NonError == JStr("boom")

SuccessResponses ==
    { Response(200, <<"application/json">>, JsonBody(Payload)),
      Response(200, <<"application/json">>, JsonBody(Null)),
      Response(200, <<"text/plain">>, TextBody("200 OK")) }

\* the response a canceled request may already hold: none, or status and
\* headers without a body
PartialResponses ==
    { NoResponse,
      Response(200, <<"application/json">>, NoBody),
      Response(500, <<"application/problem+json">>, NoBody) }

OutcomesAll ==
    {Fulfilled(r) : r \in SuccessResponses}
    \cup {Rejected(HTTPError(r)) : r \in ErrorResponses}
    \cup {Rejected(NetworkError), Rejected(NonError)}

-----------------------------------------------------------------------------
(* The request cycle and the error classifier: clients that differ in their *)
(* prefixUrl, calls of every verb with and without an AbortSignal, every    *)
(* outcome of the transport.                                                *)

ParamsCycle ==
    {Params(u, EmptyObj, EmptyObj, FALSE, "none") : u \in {Undefined, ServerUrl}}

OptionsCycle ==
    {EmptyObj, "abortSignal" :> FreshSignal, "abortSignal" :> AbortedSignal}

Init == InitWith(ParamsCycle)

Next ==
    \/ Call(VerbsAll, PathsAll, {Undefined, Payload}, OptionsCycle, {NoHeaders})
    \/ Abort
    \/ SettleCanceled(PartialResponses)
    \/ Settle(OutcomesAll)
    \/ Complete
    \/ Return

Spec == Init /\ [][Next]_vars

-----------------------------------------------------------------------------
(* Claims about the request cycle and the error classifier (under Spec) *)

\* the call is over and it failed: the promise was rejected, or the body of
\* a successful response did not parse
CallFailed ==
    /\ pc = "done"
    /\ \/ outcome.kind = "rejected"
       \/ outcome.kind = "fulfilled" /\ JsonParse(outcome.response.body).threw

\* the call failed with an HTTPError, and this is the failing response
HttpFailure == pc = "done" /\ outcome.kind = "rejected" /\ outcome.error.t = "HTTPError"
FailedResponse == outcome.error.response

C2_AbortedGetThrowsCancelError ==
    (pc = "done" /\ call.verb = "GET" /\ signal = "fired") =>
        /\ result.kind = "throw"
        /\ IsRequestException(result.value)
        /\ result.value.innerError.t = "CancelError"

C2_Witness ==
    /\ pc = "done" /\ call.verb = "GET" /\ signal = "fired"
    /\ result.kind = "throw"
    /\ result.value.t = "RequestException"
    /\ result.value.innerError.t = "CancelError"

\* a call that failed by cancellation
CanceledCall == pc = "done" /\ outcome.kind = "rejected" /\ outcome.error.t = "CancelError"

\* C3 as stated: a call that fails by cancellation is surfaced as a
\* RequestException whose statusCode is undefined.
C3_CancellationHasNoStatusCode ==
    CanceledCall =>
        /\ result.kind = "throw"
        /\ IsRequestException(result.value)
        /\ result.value.statusCode = Undefined

\* C3 amended: a call that fails by cancellation is surfaced as a
\* RequestException whose statusCode is the status of the response when the
\* response headers had arrived before the cancellation, and the transport's
\* error code "ERR_CANCELED" otherwise; it is never undefined.
C3_CancellationStatusIsResponseStatusOrErrorCode ==
    CanceledCall =>
        /\ result.kind = "throw"
        /\ IsRequestException(result.value)
        /\ result.value.statusCode # Undefined
        /\ result.value.statusCode =
              IF outcome.error.response.present
              THEN JNum(outcome.error.response.statusCode)
              ELSE JStr("ERR_CANCELED")

C3_Witness ==
    /\ CanceledCall
    /\ ~outcome.error.response.present
    /\ result.kind = "throw"
    /\ result.value.statusCode = JStr("ERR_CANCELED")

\* the failing response is problem+json and its body parses to an object
\* that has both type and title
ProblemDetailsResponse ==
    /\ HttpFailure
    /\ Includes(FailedResponse.contentType, "application/problem+json")
    /\ FailedResponse.body.str /\ FailedResponse.body.valid
    /\ FailedResponse.body.value.t = "object"
    /\ {"type", "title"} \subseteq DOMAIN FailedResponse.body.value.v

\* the thrown value is a ProblemDetailsError that carries the body's fields
ThrowsProblemDetailsOfBody ==
    LET body == FailedResponse.body.value.v
        e == result.value
        field(k) == IF k \in DOMAIN body THEN body[k] ELSE Undefined
    IN  /\ result.kind = "throw"
        /\ e.t = "ProblemDetailsError"
        /\ e.type = body["type"] /\ e.title = body["title"]
        /\ e.detail = field("detail") /\ e.instance = field("instance")
        /\ e.statusCode = JNum(FailedResponse.statusCode)
        /\ DOMAIN e.extensions = DOMAIN body \ {"type", "title", "detail", "instance"}
        /\ \A k \in DOMAIN e.extensions : e.extensions[k] = body[k]

\* C4 as stated: a failing response with content type application/problem+json
\* whose parsed body has both type and title is thrown as a ProblemDetailsError
\* with the body's type, title, detail and instance, the response status, and
\* exactly the remaining fields as extensions.
C4_ProblemDetailsFromTypeAndTitle ==
    ProblemDetailsResponse => ThrowsProblemDetailsOfBody

\* C4 amended: the same, when type and title are both non-empty (truthy) and
\* the content type does not also contain application/json.
C4_ProblemDetailsFromTruthyTypeAndTitle ==
    ( /\ ProblemDetailsResponse
      /\ FailedResponse.body.value.v["type"] \notin {JStr(""), Null, JNum(0), JBool(FALSE)}
      /\ FailedResponse.body.value.v["title"] \notin {JStr(""), Null, JNum(0), JBool(FALSE)}
      /\ \A i \in 1..Len(FailedResponse.contentType) :
            FailedResponse.contentType[i] # "application/json" )
    => ThrowsProblemDetailsOfBody

C4_Witness ==
    /\ ProblemDetailsResponse
    /\ FailedResponse.body.value = FullProblemBody
    /\ result.kind = "throw"
    /\ result.value.t = "ProblemDetailsError"
    /\ result.value.extensions = [balance |-> JNum(30), traceId |-> JStr("t-1")]

\* C5: a failing response with a JSON-family content type whose body parses
\* as JSON but lacks type or title is thrown as a plain RequestException
\* whose responseBody is the parsed body.
C5_JsonFailureCarriesParsedBody ==
    ( /\ HttpFailure
      /\ \/ Includes(FailedResponse.contentType, "application/json")
         \/ Includes(FailedResponse.contentType, "application/problem+json")
      /\ FailedResponse.body.str /\ FailedResponse.body.valid
      /\ ~( /\ FailedResponse.body.value.t = "object"
            /\ {"type", "title"} \subseteq DOMAIN FailedResponse.body.value.v ) )
    => /\ result.kind = "throw"
       /\ result.value.t = "RequestException"
       /\ result.value.responseBody = FailedResponse.body.value

\* the target URL of the call, as the message spells it
TargetUrl == <<Shown(client.prefixUrl), "/">> \o req.path

IsPrefix(p, m) == Len(p) <= Len(m) /\ SubSeq(m, 1, Len(p)) = p

\* C6 as stated: the message of every RequestException thrown, a
\* ProblemDetailsError included, is prefixed with the target URL and the verb.
C6_MessagePrefixedWithUrlAndVerb ==
    (pc = "done" /\ result.kind = "throw" /\ IsRequestException(result.value)) =>
        LET m == result.value.message
        IN  /\ IsPrefix(TargetUrl, m)
            /\ \E i \in 1..(Len(m) - 1) : m[i] = call.verb

\* C6 amended: the message of every plain RequestException thrown is the
\* target URL (prefixUrl, "/", the path without its leading slash), a space and
\* the inner error's message, with no verb; the message of a
\* ProblemDetailsError is the inner error's message alone.
C6_MessageIsUrlThenInnerMessage ==
    (pc = "done" /\ result.kind = "throw" /\ IsRequestException(result.value)) =>
        LET e == result.value
        IN  IF e.t = "ProblemDetailsError"
            THEN e.message = <<e.innerError.message>>
            ELSE /\ IsPrefix(TargetUrl, e.message)
                 /\ e.message = TargetUrl \o <<" ", e.innerError.message>>
                 /\ \A i \in 1..Len(e.message) : e.message[i] # call.verb

C6_Witness ==
    /\ pc = "done" /\ result.kind = "throw"
    /\ result.value.t = "RequestException"
    /\ call.path = <<"/", "todos">>
    /\ result.value.message =
          <<"http://localhost:38080", "/", "todos", " ", "Response code">>

-----------------------------------------------------------------------------
(* Header composition: clients that differ in their auth config, their      *)
(* construction-time headers and their header generator; calls that differ  *)
(* in their headers.                                                        *)

CredentialsOf(key, values) ==
    {EmptyObj} \cup {key :> JChars(v) : v \in values}

\* every config: each field absent, empty or set
ConfigsAll ==
    { Spread(Spread(u, pw), b) :
        u \in CredentialsOf("basicAuthUserName", {<<>>, Chars_myname}),
        pw \in CredentialsOf("basicAuthPassword", {<<>>, Chars_1234}),
        b \in CredentialsOf("bearerToken", {Chars_tok}) }

ConstructionHeaders ==
    { <<H("test", <<"1", "2", "3">>)>>,
      <<H("A", <<"1">>)>>,
      <<H("Authorization", <<"X">>)>>,
      <<H("authorization", <<"x">>)>> }

ParamsHeaders ==
    { Params(ServerUrl, config, options, headerFunc, "none") :
        config \in ConfigsAll,
        options \in {EmptyObj} \cup {"headers" :> h : h \in ConstructionHeaders},
        headerFunc \in BOOLEAN }

CallHeaders ==
    { <<H("nonHeader", <<"a", "b", "c">>)>>,
      <<H("A", <<"2">>), H("B", <<"3">>)>>,
      <<H("Authorization", <<"P">>)>>,
      <<H("authorization", <<"p">>)>> }

OptionsHeaders == {EmptyObj} \cup {"headers" :> h : h \in CallHeaders}

\* what an invocation of the header generator may return
GeneratedHeaders ==
    { NoHeaders,
      <<H("test", <<"4", "5", "6">>)>>,
      <<H("A", <<"4">>)>>,
      <<H("Authorization", <<"G">>)>> }

OutcomesHeaders ==
    { Fulfilled(Response(200, <<"application/json">>, JsonBody(Payload))),
      Rejected(HTTPError(Response(400, <<"text/plain">>, TextBody("400 Bad Request")))) }

InitHeaders == InitWith(ParamsHeaders)

NextHeaders ==
    \/ Call({"GET", "POST"}, {<<"todos">>}, {Payload}, OptionsHeaders, GeneratedHeaders)
    \/ Settle(OutcomesHeaders)
    \/ Complete
    \/ Return

SpecHeaders == InitHeaders /\ [][NextHeaders]_vars

-----------------------------------------------------------------------------
(* Body placement: calls of every verb that differ in their payload and in  *)
(* the isForm, json and form keys of the caller's options.                   *)

OtherBody == JObj([other |-> JStr("x")])

OptionsBody ==
    { Spread(Spread(f, j), fm) :
        f \in {EmptyObj, "isForm" :> JBool(TRUE), "isForm" :> JBool(FALSE)},
        j \in {EmptyObj, "json" :> OtherBody},
        fm \in {EmptyObj, "form" :> OtherBody} }

InitBody == InitWith({Params(ServerUrl, EmptyObj, EmptyObj, FALSE, "none")})

NextBody ==
    \/ Call(VerbsAll, PathsAll, {Undefined, Null, Payload}, OptionsBody, {NoHeaders})
    \/ Settle(OutcomesHeaders)
    \/ Complete
    \/ Return

SpecBody == InitBody /\ [][NextBody]_vars

-----------------------------------------------------------------------------
(* Claims about header composition (under SpecHeaders) *)

\* a request has been composed and handed to got
Dispatched == pc = "inflight"

DefaultHeaders == HeadersOf(client.gotOptions)
PerCallHeaders == HeadersOf(call.options)

\* header names are compared as got sends them, in lower case
Supplies(h, n) == \E i \in 1..Len(h) : LowerName(h[i].k) = n
\* the value of the last entry of h whose name is n in lower case
LastValue(h, n) ==
    LET last == CHOOSE i \in 1..Len(h) :
                    /\ LowerName(h[i].k) = n
                    /\ \A j \in (i + 1)..Len(h) : LowerName(h[j].k) # n
    IN  h[last].v
LowerNames(h) == {LowerName(h[i].k) : i \in 1..Len(h)}

\* C7: for every header name the value sent is the generator's if the
\* generator returns that name, else the per-call value if supplied, else the
\* construction-time default; and the generator is invoked once for every
\* request, the request carrying what that invocation returned.
C7_HeaderPrecedence ==
    Dispatched =>
        /\ HKeys(req.headers) =
              LowerNames(DefaultHeaders) \cup LowerNames(PerCallHeaders)
                \cup LowerNames(call.generated)
        /\ \A n \in HKeys(req.headers) :
              HGet(req.headers, n) =
                  IF Supplies(call.generated, n) THEN LastValue(call.generated, n)
                  ELSE IF Supplies(PerCallHeaders, n) THEN LastValue(PerCallHeaders, n)
                  ELSE LastValue(DefaultHeaders, n)
        /\ client.headerFunc => genCalls = nCalls + 1
        /\ ~client.headerFunc => genCalls = 0 /\ call.generated = NoHeaders

\* default {A: '1'}, per-call {A: '2', B: '3'}, generator {A: '4'}: A is 4, B is 3
C7_Witness ==
    /\ Dispatched
    /\ nCalls = 1
    /\ DefaultHeaders = <<H("A", <<"1">>)>>
    /\ PerCallHeaders = <<H("A", <<"2">>), H("B", <<"3">>)>>
    /\ call.generated = <<H("A", <<"4">>)>>
    /\ req.headers = <<H("a", <<"4">>), H("b", <<"3">>)>>

B64Value(c) == (CHOOSE i \in 1..Len(Base64Chars) : Base64Chars[i] = c) - 1

RECURSIVE Base64Decode(_)
\* the bytes a base64 text stands for: four characters give three bytes, a
\* padded last group one or two
Base64Decode(chars) ==
    IF Len(chars) < 4 THEN <<>>
    ELSE LET v1 == B64Value(chars[1])
             v2 == B64Value(chars[2])
             rest == Base64Decode(SubSeq(chars, 5, Len(chars)))
         IN  IF chars[3] = "="
             THEN <<v1 * 4 + v2 \div 16>>
             ELSE IF chars[4] = "="
             THEN <<v1 * 4 + v2 \div 16, (v2 % 16) * 16 + B64Value(chars[3]) \div 4>>
             ELSE <<v1 * 4 + v2 \div 16,
                    (v2 % 16) * 16 + B64Value(chars[3]) \div 4,
                    (B64Value(chars[3]) % 4) * 64 + B64Value(chars[4])>> \o rest

Config == client.init.config
ConfigChars(key) == Config[key].v

\* neither the per-call headers nor the header generator give an Authorization header
CallLeavesAuthorization ==
    /\ ~Supplies(PerCallHeaders, "authorization")
    /\ ~Supplies(call.generated, "authorization")

\* the request carries Authorization: Basic base64(userName:password)
SendsBasicAuth ==
    /\ HHas(req.headers, "authorization")
    /\ LET value == HGet(req.headers, "authorization")
           user == ConfigChars("basicAuthUserName")
           password == ConfigChars("basicAuthPassword")
       IN  /\ IsPrefix(BasicPrefix, value)
           /\ Base64Decode(SubSeq(value, Len(BasicPrefix) + 1, Len(value)))
                = Bytes(user \o <<":">> \o password)
           /\ (user = Chars_myname /\ password = Chars_1234) =>
                value = <<"B", "a", "s", "i", "c", " ", "b", "X", "l", "u", "Y", "W",
                          "1", "l", "O", "j", "E", "y", "M", "z", "Q", "=">>

\* C8 as stated: a client constructed with both basicAuthUserName and
\* basicAuthPassword sends Authorization: Basic base64(userName:password) on
\* any call that does not itself supply an Authorization header, also when a
\* bearerToken is given.
C8_BasicAuthWhenBothGiven ==
    ( /\ Dispatched
      /\ {"basicAuthUserName", "basicAuthPassword"} \subseteq DOMAIN Config
      /\ CallLeavesAuthorization )
    => SendsBasicAuth

\* C8 amended: a client constructed with a non-empty basicAuthUserName and a
\* non-empty basicAuthPassword sends Authorization: Basic
\* base64(userName:password) on any call for which neither the per-call
\* headers nor the header generator give an Authorization header, also when a
\* bearerToken is given; on such a call Bearer <bearerToken> is sent exactly
\* when the token is non-empty and the user name or the password is missing
\* or empty.
C8_BasicAuthWhenBothNonEmpty ==
    LET nonEmpty(key) == key \in DOMAIN Config /\ ConfigChars(key) # <<>>
        complete == nonEmpty("basicAuthUserName") /\ nonEmpty("basicAuthPassword")
    IN  (Dispatched /\ CallLeavesAuthorization) =>
            /\ complete => SendsBasicAuth
            /\ (~complete /\ nonEmpty("bearerToken")) =>
                  /\ HHas(req.headers, "authorization")
                  /\ HGet(req.headers, "authorization")
                        = BearerPrefix \o ConfigChars("bearerToken")
            /\ ( /\ HHas(req.headers, "authorization")
                 /\ IsPrefix(BearerPrefix, HGet(req.headers, "authorization")) )
               => ~complete

\* basic auth wins over a bearer token
C8_Witness ==
    /\ Dispatched
    /\ CallLeavesAuthorization
    /\ DOMAIN Config = {"basicAuthUserName", "basicAuthPassword", "bearerToken"}
    /\ ConfigChars("basicAuthUserName") = Chars_myname
    /\ ConfigChars("basicAuthPassword") = Chars_1234
    /\ PerCallHeaders = <<H("nonHeader", <<"a", "b", "c">>)>>
    /\ SendsBasicAuth

\* C9: an Authorization header the caller supplies explicitly, in the
\* construction-time transport options or per call, is never replaced by the
\* Basic/Bearer value computed from the auth config: the request carries the
\* caller's value.
C9_ExplicitAuthorizationKept ==
    LET explicit == HeadersOf(client.init.options)
    IN  ( /\ Dispatched
          /\ ~Supplies(call.generated, "authorization")
          /\ Supplies(explicit, "authorization") \/ Supplies(PerCallHeaders, "authorization") )
        => /\ HHas(req.headers, "authorization")
           /\ HGet(req.headers, "authorization") =
                 IF Supplies(PerCallHeaders, "authorization")
                 THEN LastValue(PerCallHeaders, "authorization")
                 ELSE LastValue(explicit, "authorization")

-----------------------------------------------------------------------------
(* Claims about body placement (under SpecBody) *)

\* C10: for GET and DELETE calls made with no payload, whatever the caller's
\* options, the composed options have neither a json key nor a form key.
C10_NoBodyKeysWithoutPayload ==
    (Dispatched /\ call.verb \in {"GET", "DELETE"} /\ call.data = Undefined) =>
        /\ ~HasKey(opts, "json")
        /\ ~HasKey(opts, "form")

-----------------------------------------------------------------------------
(* Log redaction (src/src/loggers.ts, src/log-redaction.ts).  Property     *)
(* names are sequences of characters, because the patterns are matched     *)
(* inside them; an object holds the sequence of its entries in key order.  *)

UpperCase ==
    <<"A", "B", "C", "D", "E", "F", "G", "H", "I", "J", "K", "L", "M",
      "N", "O", "P", "Q", "R", "S", "T", "U", "V", "W", "X", "Y", "Z">>
LowerCase ==
    <<"a", "b", "c", "d", "e", "f", "g", "h", "i", "j", "k", "l", "m",
      "n", "o", "p", "q", "r", "s", "t", "u", "v", "w", "x", "y", "z">>

\* the `i` flag: characters are compared without case
FoldCase(c) ==
    IF \E i \in 1..Len(UpperCase) : UpperCase[i] = c
    THEN LowerCase[CHOOSE i \in 1..Len(UpperCase) : UpperCase[i] = c]
    ELSE c
FoldCaseAll(s) == [i \in 1..Len(s) |-> FoldCase(s[i])]

\* a pattern is a sequence of parts: literal text, possibly optional (`x?`)
Lit(text) == [text |-> text, optional |-> FALSE]
Opt(text) == [text |-> text, optional |-> TRUE]

RECURSIVE MatchesAt(_, _, _)
\* the pattern matches the text s starting after position i
MatchesAt(pattern, s, i) ==
    IF pattern = <<>> THEN TRUE
    ELSE LET part == Head(pattern)
             n == Len(part.text)
         IN  \/ /\ i + n <= Len(s)
                /\ FoldCaseAll(SubSeq(s, i + 1, i + n)) = FoldCaseAll(part.text)
                /\ MatchesAt(Tail(pattern), s, i + n)
             \/ /\ part.optional
                /\ MatchesAt(Tail(pattern), s, i)

\* RegExp.prototype.test of an unanchored pattern: a match anywhere in s
Test(pattern, s) == \E i \in 0..Len(s) : MatchesAt(pattern, s, i)

\* genericLogRedactionKeyPatterns
HeaderPatterns ==
    << <<Lit(<<"a", "u", "t", "h", "o", "r", "i", "z", "a", "t", "i", "o", "n">>)>> >>
\* mutant: the optional parts of the patterns are required
PropPatterns_Strict ==
    << <<Lit(<<"p", "a", "s", "s">>), Lit(<<"w", "o", "r", "d">>)>>,
       <<Lit(<<"e", "m", "a", "i", "l">>)>>,
       <<Lit(<<"t", "o", "k", "e", "n">>)>>,
       <<Lit(<<"s", "e", "c", "r", "e", "t">>)>>,
       <<Lit(<<"c", "l", "i", "e", "n", "t">>), Lit(<<"_">>), Lit(<<"i", "d">>)>>,
       <<Lit(<<"c", "l", "i", "e", "n", "t">>), Lit(<<"_">>), Lit(<<"s", "e", "c", "r", "e", "t">>)>>,
       <<Lit(<<"u", "s", "e", "r">>), Lit(<<"n", "a", "m", "e">>)>> >>

PropPatterns ==
    << <<Lit(<<"p", "a", "s", "s">>), Opt(<<"w", "o", "r", "d">>)>>,
       <<Lit(<<"e", "m", "a", "i", "l">>)>>,
       <<Lit(<<"t", "o", "k", "e", "n">>)>>,
       <<Lit(<<"s", "e", "c", "r", "e", "t">>)>>,
       <<Lit(<<"c", "l", "i", "e", "n", "t">>), Opt(<<"_">>), Lit(<<"i", "d">>)>>,
       <<Lit(<<"c", "l", "i", "e", "n", "t">>), Opt(<<"_">>), Lit(<<"s", "e", "c", "r", "e", "t">>)>>,
       <<Lit(<<"u", "s", "e", "r">>), Opt(<<"n", "a", "m", "e">>)>> >>

Redacted == JStr("<redacted>")

\* the two nested loops over Object.keys(obj) and the patterns: every key
\* some pattern matches gets the marker; null has no keys to loop over
RedactKeys(obj, patterns) ==
    IF obj.t # "object" THEN obj
    ELSE JObj([ i \in 1..Len(obj.v) |->
                IF \E j \in 1..Len(patterns) : Test(patterns[j], obj.v[i].k)
                THEN H(obj.v[i].k, Redacted)
                ELSE obj.v[i] ])

\* `options.headers === undefined`: the key is missing or holds undefined
IsUndefinedKey(options, k) == ~HasKey(options, k) \/ options[k] = Undefined

\* redactSensitiveHeaders: changes options.headers in place
RedactSensitiveHeaders(options) ==
    IF IsUndefinedKey(options, "headers") THEN options
    ELSE [options EXCEPT !["headers"] = RedactKeys(@, HeaderPatterns)]

\* options.json ?? options.form names the one object that is redacted
JsonOrFormKey(options) ==
    IF HasKey(options, "json") /\ ~Nullish(options["json"]) THEN "json" ELSE "form"

\* redactSensitiveProps: changes options.json, or else options.form, in place
RedactSensitiveProps(options) ==
    IF IsUndefinedKey(options, JsonOrFormKey(options)) THEN options
    ELSE [options EXCEPT ![JsonOrFormKey(options)] = RedactKeys(@, PropPatterns)]

\* redact: a deep copy of the options, redacted; the argument is not touched
Redact(options) == RedactSensitiveProps(RedactSensitiveHeaders(options))


-----------------------------------------------------------------------------
(* Redaction inputs: the names the tests and the documentation list, names  *)
(* that only contain one of them, and names that contain none.              *)

\* the sensitive body keys of the test table of loggers.test.ts
SensitiveNames ==
    { <<"p", "a", "s", "s", "w", "o", "r", "d">>,
      <<"P", "a", "s", "s", "w", "o", "r", "d">>,
      <<"p", "a", "s", "s">>,
      <<"P", "a", "s", "s">>,
      <<"e", "m", "a", "i", "l">>,
      <<"E", "m", "a", "i", "l">>,
      <<"t", "o", "k", "e", "n">>,
      <<"T", "o", "k", "e", "n">>,
      <<"c", "l", "i", "e", "n", "t", "_", "i", "d">>,
      <<"c", "l", "i", "e", "n", "t", "I", "d">>,
      <<"C", "l", "i", "e", "n", "t", "I", "d">>,
      <<"c", "l", "i", "e", "n", "t", "_", "s", "e", "c", "r", "e", "t">>,
      <<"c", "l", "i", "e", "n", "t", "S", "e", "c", "r", "e", "t">>,
      <<"C", "l", "i", "e", "n", "t", "S", "e", "c", "r", "e", "t">>,
      <<"u", "s", "e", "r">>,
      <<"U", "s", "e", "r">>,
      <<"u", "s", "e", "r", "n", "a", "m", "e">>,
      <<"U", "s", "e", "r", "n", "a", "m", "e">> }

OtherNames ==
    { <<"i", "g", "n", "o", "r", "e", "M", "e">>,
      <<"n", "a", "m", "e">>,
      <<"u", "s", "e", "r", "I", "d">>,
      <<"p", "a", "s", "s", "p", "o", "r", "t">>,
      <<"i", "d">> }

Name_authorization == <<"a", "u", "t", "h", "o", "r", "i", "z", "a", "t", "i", "o", "n">>
Name_Authorization == <<"A", "u", "t", "h", "o", "r", "i", "z", "a", "t", "i", "o", "n">>
Name_ProxyAuthorization == <<"P", "r", "o", "x", "y", "-", "A", "u", "t", "h", "o", "r", "i", "z", "a", "t", "i", "o", "n">>
Name_accept == <<"a", "c", "c", "e", "p", "t">>

SensitiveHeaderNames == {Name_authorization, Name_Authorization}

BodyObjects ==
    {JObj(<<H(k, JStr("v"))>>) : k \in SensitiveNames \cup OtherNames}
    \cup { JObj(<<H(<<"p", "a", "s", "s", "w", "o", "r", "d">>, JStr("p")), H(<<"i", "g", "n", "o", "r", "e", "M", "e">>, JStr("ignoreMe"))>>),
           JObj(<<H(<<"n", "a", "m", "e">>, JStr("n")), H(<<"T", "o", "k", "e", "n">>, JStr("t"))>>) }

SomeBodies ==
    { JObj(<<H(<<"p", "a", "s", "s", "w", "o", "r", "d">>, JStr("p"))>>),
      JObj(<<H(<<"e", "m", "a", "i", "l">>, JStr("e"))>>),
      JObj(<<H(<<"i", "g", "n", "o", "r", "e", "M", "e">>, JStr("ignoreMe"))>>) }

HeaderObjects ==
    { JObj(<<H(Name_authorization, JStr("a"))>>),
      JObj(<<H(Name_Authorization, JStr("a"))>>),
      JObj(<<H(Name_accept, JStr("j")), H(Name_Authorization, JStr("a"))>>),
      JObj(<<H(Name_ProxyAuthorization, JStr("b")), H(Name_accept, JStr("j"))>>) }

RedactionInputs ==
    {"json" :> b : b \in BodyObjects}
    \cup {"form" :> b : b \in BodyObjects}
    \cup {("json" :> Undefined) @@ ("form" :> b) : b \in SomeBodies}
    \cup {("json" :> j) @@ ("form" :> f) : j \in SomeBodies, f \in SomeBodies}
    \cup {"headers" :> h : h \in HeaderObjects}
    \cup {("headers" :> h) @@ ("json" :> b) : h \in HeaderObjects, b \in SomeBodies}
    \cup {"headers" :> Undefined, "headers" :> Null, EmptyObj}

\* redactSensitiveHeaders(options): the caller's object is changed in place
RedactHeadersCall ==
    /\ redaction.pc = "input"
    /\ redaction' = [ pc |-> "done", op |-> "redactSensitiveHeaders",
                      input |-> redaction.options,
                      options |-> RedactSensitiveHeaders(redaction.options),
                      returned |-> Undefined ]
    /\ UNCHANGED <<client, pc, call, opts, req, signal, canceled, outcome, result, logged,
                   genCalls, nCalls, cached, double, logging>>

\* redactSensitiveProps(options): the caller's object is changed in place
RedactPropsCall ==
    /\ redaction.pc = "input"
    /\ redaction' = [ pc |-> "done", op |-> "redactSensitiveProps",
                      input |-> redaction.options,
                      options |-> RedactSensitiveProps(redaction.options),
                      returned |-> Undefined ]
    /\ UNCHANGED <<client, pc, call, opts, req, signal, canceled, outcome, result, logged,
                   genCalls, nCalls, cached, double, logging>>

\* redact(options): works on a copy and returns it
RedactCall ==
    /\ redaction.pc = "input"
    /\ redaction' = [ pc |-> "done", op |-> "redact",
                      input |-> redaction.options,
                      options |-> redaction.options,
                      returned |-> JObj(Redact(redaction.options)) ]
    /\ UNCHANGED <<client, pc, call, opts, req, signal, canceled, outcome, result, logged,
                   genCalls, nCalls, cached, double, logging>>

InitRedact ==
    /\ Constructed({Params(ServerUrl, EmptyObj, EmptyObj, FALSE, "none")})
    /\ redaction \in {[pc |-> "input", options |-> o] : o \in RedactionInputs}
    /\ cached = NoCached
    /\ double = NoDouble
    /\ logging = NoLogging

NextRedact ==
    \/ RedactHeadersCall
    \/ RedactPropsCall
    \/ RedactCall

SpecRedact == InitRedact /\ [][NextRedact]_vars

-----------------------------------------------------------------------------
(* Claims about log redaction (under SpecRedact) *)

\* the options object as the operation leaves it: the argument itself for
\* the two in-place functions, the returned copy for redact
RedactionOutput ==
    IF redaction.op = "redact" THEN redaction.returned.v ELSE redaction.options

RedactsProps == redaction.pc = "done" /\ redaction.op \in {"redactSensitiveProps", "redact"}
RedactsHeaders == redaction.pc = "done" /\ redaction.op \in {"redactSensitiveHeaders", "redact"}

\* the key holds an object, before the operation
HoldsObject(k) == HasKey(redaction.input, k) /\ redaction.input[k].t = "object"
EntriesIn(k) == redaction.input[k].v
EntriesOut(k) == RedactionOutput[k].v

\* s contains the word w, whatever the case of its letters
Contains(s, w) ==
    \E i \in 0..(Len(s) - Len(w)) :
        \A j \in 1..Len(w) : FoldCase(s[i + j]) = w[j]

\* the words the body patterns look for
SensitiveWords ==
    { <<"p", "a", "s", "s">>, <<"e", "m", "a", "i", "l">>, <<"t", "o", "k", "e", "n">>,
      <<"s", "e", "c", "r", "e", "t">>, <<"c", "l", "i", "e", "n", "t", "i", "d">>,
      <<"c", "l", "i", "e", "n", "t", "_", "i", "d">>, <<"u", "s", "e", "r">> }
HasSensitiveWord(k) == \E w \in SensitiveWords : Contains(k, w)

-----------------------------------------------------------------------------
(* CachedClient: a NodeCache in front of the get of an HttpClient.  The     *)
(* cache is a NodeCache with its default settings: entries do not expire.  *)

MaxCachedCalls == 3

\* NodeCache.get: the stored value, or undefined for a key that is not stored
CacheGet(cache, route) == IF route \in DOMAIN cache THEN cache[route] ELSE Undefined

\* NodeCache.set
CacheSet(cache, route, value) ==
    [r \in DOMAIN cache \cup {route} |-> IF r = route THEN value ELSE cache[r]]

\* `if (!noCache) { const cached = this.#cache.get(route); if (cached) ...`
ServedFromCache(cache, route, noCache) == ~noCache /\ Truthy(CacheGet(cache, route))

\* mutant: an exception of the underlying client removes the entry of the route
CacheAfterCall_DropsOnThrow(cache, route, underlying) ==
    IF underlying.kind = "return"
    THEN CacheSet(cache, route, underlying.value)
    ELSE [r \in DOMAIN cache \ {route} |-> cache[r]]

\* the cache after `await this.#httpClient.get(route)`: this.#cache.set is
\* reached only when the await did not throw
CacheAfterCall(cache, route, underlying) ==
    IF underlying.kind = "return"
    THEN CacheSet(cache, route, underlying.value)
    ELSE cache

NoCachedCall == [name |-> "none"]

\* new CachedClient(httpClient, logger, cache) with an empty NodeCache
NewCachedClient ==
    [ pc |-> "idle", cache |-> <<>>, op |-> NoCachedCall, result |-> NoResult,
      before |-> <<>>, callsBefore |-> 0, prev |-> [op |-> NoCachedCall, result |-> NoResult],
      n |-> 0 ]

\* get(route) and getNoCache(route) up to the await in #get: a truthy cached
\* value is returned at once, anything else goes to the underlying client
CachedGet(Routes) ==
    /\ cached.pc = "idle"
    /\ cached.n < MaxCachedCalls
    /\ \E name \in {"get", "getNoCache"}, route \in Routes :
         LET hit == ServedFromCache(cached.cache, route, name = "getNoCache")
         IN  cached' = [ cached EXCEPT
                 !.op = [name |-> name, route |-> route],
                 !.before = cached.cache,
                 !.callsBefore = nCalls,
                 !.pc = IF hit THEN "done" ELSE "calling",
                 !.result = IF hit THEN Returned(CacheGet(cached.cache, route)) ELSE NoResult ]
    /\ UNCHANGED <<client, pc, call, opts, req, signal, canceled, outcome, result, logged,
                   genCalls, nCalls, redaction, double, logging>>

\* this.#httpClient.get(route): a get of the HttpClient without options
CachedCallThrough ==
    /\ cached.pc = "calling"
    /\ Call({"GET"}, {cached.op.route}, {Undefined}, {EmptyObj}, {NoHeaders})

\* #get after the await: the result is stored and returned; an exception of
\* the underlying client leaves #get where it was thrown
CachedSettle ==
    /\ cached.pc = "calling"
    /\ pc = "done"
    /\ cached' = [ cached EXCEPT
           !.cache = CacheAfterCall(cached.cache, cached.op.route, result),
           !.result = result,
           !.pc = "done" ]
    /\ UNCHANGED <<client, pc, call, opts, req, signal, canceled, outcome, result, logged,
                   genCalls, nCalls, redaction, double, logging>>

\* the caller has the result; the clients take the next call
CachedReturn ==
    /\ cached.pc = "done"
    /\ cached' = [ cached EXCEPT
           !.pc = "idle",
           !.prev = [op |-> cached.op, result |-> cached.result],
           !.op = NoCachedCall,
           !.result = NoResult,
           !.n = cached.n + 1 ]
    /\ pc' = "idle"
    /\ call' = NoCall
    /\ opts' = EmptyObj
    /\ req' = NoRequest
    /\ signal' = "none"
    /\ canceled' = FALSE
    /\ outcome' = NoOutcome
    /\ result' = NoResult
    /\ logged' = <<>>
    /\ UNCHANGED <<client, genCalls, nCalls, redaction, double, logging>>

Route_a == <<"/", "a">>
Route_b == <<"/", "b">>
RoutesCached == {Route_a, Route_b}

OutcomesCached ==
    { Fulfilled(Response(200, <<"application/json">>, JsonBody(Payload))),
      Fulfilled(Response(200, <<"application/json">>, JsonBody(OtherBody))),
      Fulfilled(Response(200, <<"application/json">>, JsonBody(Null))),
      Rejected(HTTPError(Response(400, <<"text/plain">>, TextBody("400 Bad Request")))) }

InitCached ==
    /\ Constructed({Params(ServerUrl, EmptyObj, EmptyObj, FALSE, "none")})
    /\ redaction = NoRedaction
    /\ cached = NewCachedClient
    /\ double = NoDouble
    /\ logging = NoLogging

NextCached ==
    \/ CachedGet(RoutesCached)
    \/ CachedCallThrough
    \/ Settle(OutcomesCached)
    \/ Complete
    \/ CachedSettle
    \/ CachedReturn

SpecCached == InitCached /\ [][NextCached]_vars

-----------------------------------------------------------------------------
(* Claims about the CachedClient (under SpecCached) *)

\* a call of the cached client is over
CachedDone == cached.pc = "done"
\* the underlying client was invoked during the call
InvokedUnderlying == nCalls # cached.callsBefore
\* the call came right after a completed, successful call `name` of the same route
Follows(name) ==
    /\ cached.prev.op.name = name
    /\ cached.prev.op.route = cached.op.route
    /\ cached.prev.result.kind = "return"

\* C12: a get(route) that follows a completed get(route) which returned V
\* returns V from the cache and does not invoke the underlying client,
\* whatever the value V is.
C12_SecondGetServedFromCache ==
    (CachedDone /\ cached.op.name = "get" /\ Follows("get")) =>
        /\ cached.result = cached.prev.result
        /\ ~InvokedUnderlying

\* C13: getNoCache(route) invokes the underlying client whatever the cache
\* holds, on success the cache entry of the route is the new result, and a
\* get(route) that follows returns that new result.
C13_GetNoCacheRefreshesEntry ==
    /\ (CachedDone /\ cached.op.name = "getNoCache") =>
          /\ InvokedUnderlying
          /\ cached.result.kind = "return" =>
                CacheGet(cached.cache, cached.op.route) = cached.result.value
    /\ (CachedDone /\ cached.op.name = "get" /\ Follows("getNoCache")) =>
          cached.result = cached.prev.result

\* the underlying client threw during the call
UnderlyingThrew == CachedDone /\ InvokedUnderlying /\ result.kind = "throw"

\* C14: when the underlying client throws during get or getNoCache, the
\* caller gets that same exception and the cache is as it was before the call.
C14_ThrowLeavesCacheAlone ==
    UnderlyingThrew =>
        /\ cached.result.kind = "throw"
        /\ cached.result.value = result.value
        /\ IsRequestException(cached.result.value)
        /\ cached.cache = cached.before

\* a getNoCache of a route that has an entry threw, and a get of a route
\* that has no entry threw while another route has one
C14_Witness ==
    /\ UnderlyingThrew
    /\ cached.cache # <<>>
    /\ \/ cached.op.name = "getNoCache" /\ cached.op.route \in DOMAIN cached.before
       \/ cached.op.name = "get" /\ cached.op.route \notin DOMAIN cached.before

-----------------------------------------------------------------------------
(* TestHttpClient: a test double with a routing table of canned payloads    *)
(* and a call log per verb.                                                 *)

MaxDoubleCalls == 3
MaxResets == 1

HttpMethodCall == {"get", "post", "put", "patch", "delete"}

\* { get: {}, post: {}, patch: {}, put: {}, delete: {} }
EmptyCalls == [verb \in HttpMethodCall |-> <<>>]

\* new TestHttpClient(routePayloads)
NewTestHttpClient(routePayloads) ==
    [ pc |-> "idle", given |-> routePayloads, routePayloads |-> routePayloads,
      calls |-> EmptyCalls, last |-> [op |-> "none"], cleared |-> EmptyCalls,
      resets |-> 0, n |-> 0 ]

\* this._routePayloads[verb]?.[route]
CannedPayload(routePayloads, verb, route) ==
    IF verb \in DOMAIN routePayloads /\ route \in DOMAIN routePayloads[verb]
    THEN routePayloads[verb][route]
    ELSE Undefined

\* mutant: post, put and patch store the payload as it was passed
Recorded_AsPassed(verb, data) ==
    IF verb \in {"get", "delete"} THEN Undefined ELSE data

\* what a call stores in the log: undefined for get and delete, `data || {}`
\* for post, put and patch
Recorded(verb, data) ==
    IF verb \in {"get", "delete"} THEN Undefined
    ELSE IF Truthy(data) THEN data ELSE JObj(EmptyObj)

\* this.calls[verb][route] = value
RecordCall(calls, verb, route, value) ==
    [calls EXCEPT ![verb] =
        [r \in DOMAIN calls[verb] \cup {route} |-> IF r = route THEN value ELSE calls[verb][r]]]

\* mutant: resetCalls keeps the log of get
ResetCallLogs_KeepsGet(calls) == [EmptyCalls EXCEPT !["get"] = calls["get"]]

\* resetCalls: this.calls = { get: {}, post: {}, patch: {}, put: {}, delete: {} }
ResetCallLogs(calls) == EmptyCalls

\* get/post/put/patch/delete up to the return: the call is recorded and the
\* canned payload looked up; the promise of the async method is still pending
DoubleCall(Routes, Datas) ==
    /\ double.pc \in {"idle", "resolved"}
    /\ double.n < MaxDoubleCalls
    /\ \E verb \in HttpMethodCall, route \in Routes :
       \E data \in (IF verb \in {"get", "delete"} THEN {Undefined} ELSE Datas) :
          double' = [ double EXCEPT
              !.pc = "pending",
              !.calls = RecordCall(double.calls, verb, route, Recorded(verb, data)),
              !.last = [ op |-> "call", verb |-> verb, route |-> route, data |-> data,
                         callsBefore |-> double.calls,
                         response |-> CannedPayload(double.routePayloads, verb, route),
                         resolved |-> NoResult ],
              !.n = double.n + 1 ]
    /\ UNCHANGED <<client, pc, call, opts, req, signal, canceled, outcome, result, logged,
                   genCalls, nCalls, redaction, cached, logging>>

\* the promise of the call resolves to the payload that was looked up
DoubleResolve ==
    /\ double.pc = "pending"
    /\ double' = [ double EXCEPT
           !.pc = "resolved",
           !.last = [double.last EXCEPT !.resolved = Returned(double.last.response)] ]
    /\ UNCHANGED <<client, pc, call, opts, req, signal, canceled, outcome, result, logged,
                   genCalls, nCalls, redaction, cached, logging>>

\* resetCalls()
ResetCalls ==
    /\ double.pc \in {"idle", "resolved"}
    /\ double.resets < MaxResets
    /\ double' = [ double EXCEPT
           !.pc = "idle",
           !.calls = ResetCallLogs(double.calls),
           !.last = [op |-> "resetCalls"],
           !.cleared = double.calls,
           !.resets = double.resets + 1 ]
    /\ UNCHANGED <<client, pc, call, opts, req, signal, canceled, outcome, result, logged,
                   genCalls, nCalls, redaction, cached, logging>>

Route_index == "/index"
Route_other == "/other"
RoutesDouble == {Route_index, Route_other}

CannedResponse == JObj([success |-> JBool(TRUE)])
PayloadDouble == JObj([payload |-> JStr("payload")])

\* routing tables: one with every verb, one with get alone, an empty one
RoutePayloadsAll ==
    { [verb \in HttpMethodCall |-> (Route_index :> CannedResponse)],
      ("get" :> (Route_index :> CannedResponse)),
      <<>> }

\* payloads of post, put and patch: an object, an empty object, none
DatasDouble == {PayloadDouble, JObj(EmptyObj), Undefined}

InitDouble ==
    /\ Constructed({Params(ServerUrl, EmptyObj, EmptyObj, FALSE, "none")})
    /\ redaction = NoRedaction
    /\ cached = NoCached
    /\ double \in {NewTestHttpClient(t) : t \in RoutePayloadsAll}
    /\ logging = NoLogging

NextDouble ==
    \/ DoubleCall(RoutesDouble, DatasDouble)
    \/ DoubleResolve
    \/ ResetCalls

SpecDouble == InitDouble /\ [][NextDouble]_vars

-----------------------------------------------------------------------------
(* Claims about the TestHttpClient (under SpecDouble) *)

\* a call has been made and recorded; its promise is pending or resolved
DoubleCalled == double.pc \in {"pending", "resolved"} /\ double.last.op = "call"
LastVerb == double.last.verb
LastRoute == double.last.route
WithPayload == {"post", "put", "patch"}

\* the call is in the log of its own verb, the logs of the other verbs are
\* as before, and a resolved call has resolved to the canned payload
RecordedAndResolved ==
    /\ LastRoute \in DOMAIN double.calls[LastVerb]
    /\ \A r \in DOMAIN double.last.callsBefore[LastVerb] \ {LastRoute} :
          /\ r \in DOMAIN double.calls[LastVerb]
          /\ double.calls[LastVerb][r] = double.last.callsBefore[LastVerb][r]
    /\ \A verb \in HttpMethodCall \ {LastVerb} :
          double.calls[verb] = double.last.callsBefore[verb]
    /\ double.pc = "resolved" =>
          double.last.resolved = Returned(CannedPayload(double.given, LastVerb, LastRoute))

\* C15 as stated: every call is recorded under its own verb before it
\* resolves, mapped to the payload for post/put/patch and to undefined for
\* get/delete; it resolves to the canned payload; other logs are unchanged.
C15_CallRecordedWithPayload ==
    DoubleCalled =>
        /\ RecordedAndResolved
        /\ double.calls[LastVerb][LastRoute] =
              IF LastVerb \in WithPayload THEN double.last.data ELSE Undefined

\* C15, amended: as above, but post/put/patch map the route to the payload
\* only when the payload is truthy; a call without a payload (or with a
\* falsy one) maps the route to an empty object {}.
C15_CallRecordedWithPayloadOrEmptyObject ==
    DoubleCalled =>
        /\ RecordedAndResolved
        /\ double.calls[LastVerb][LastRoute] =
              IF LastVerb \notin WithPayload THEN Undefined
              ELSE IF double.last.data \in {Undefined, Null} THEN JObj(EmptyObj)
              ELSE double.last.data

\* a post without a payload, to a route without a canned payload, is in the
\* log as {} while its promise is pending, next to an earlier call of get
C15_Witness ==
    /\ double.pc = "pending" /\ double.last.op = "call"
    /\ LastVerb = "post" /\ double.last.data = Undefined
    /\ CannedPayload(double.given, LastVerb, LastRoute) = Undefined
    /\ double.calls["post"][LastRoute] = JObj(EmptyObj)
    /\ DOMAIN double.calls["get"] # {}

\* C16: resetCalls leaves every call log empty and the routing table as it
\* was given, and calls made after the reset resolve to the same canned
\* payloads.
C16_ResetClearsLogsOnly ==
    /\ double.last.op = "resetCalls" =>
          /\ \A verb \in HttpMethodCall : DOMAIN double.calls[verb] = {}
          /\ double.routePayloads = double.given
    /\ (double.resets > 0 /\ double.pc = "resolved") =>
          /\ double.routePayloads = double.given
          /\ double.last.resolved = Returned(CannedPayload(double.given, LastVerb, LastRoute))

\* a reset emptied logs that held calls of get and post, and a call of get
\* made after it resolved to its canned payload
C16_Witness ==
    /\ double.resets > 0 /\ double.pc = "resolved"
    /\ LastVerb = "get"
    /\ double.last.resolved = Returned(CannedResponse)
    /\ double.last.callsBefore = EmptyCalls
    /\ DOMAIN double.cleared["get"] # {}
    /\ DOMAIN double.cleared["post"] # {}

-----------------------------------------------------------------------------
(* raw: the passthrough to got *)

\* this.#got(path, options): the path and the options go to got as they
\* are; #request, which adds the abort listener, is not on the way
RawRequest(c, path, options) ==
    [ path |-> path,
      options |-> options,
      headers |-> WireHeaders(c.gotOptions, options),
      listening |-> FALSE ]

\* raw(path, options) up to the await
RawCall(Paths, Options) ==
    /\ pc = "idle"
    /\ nCalls < MaxCalls
    /\ \E path \in Paths, options \in Options :
         /\ call' = [verb |-> "RAW", path |-> path, data |-> Undefined,
                     options |-> options, generated |-> NoHeaders]
         /\ opts' = options
         /\ req' = RawRequest(client, path, options)
         /\ signal' = SignalOf(options)
    /\ pc' = "inflight"
    /\ canceled' = FALSE
    /\ outcome' = NoOutcome
    /\ result' = NoResult
    /\ logged' = <<>>
    /\ UNCHANGED <<client, genCalls, nCalls>>
    /\ UNCHANGED beside

\* raw after the await: the response is returned as it is, a rejection is
\* thrown as it is; nothing is logged
RawComplete ==
    /\ pc = "settled"
    /\ call.verb = "RAW"
    /\ result' = IF outcome.kind = "fulfilled"
                 THEN Returned(outcome.response)
                 ELSE Thrown(outcome.error)
    /\ pc' = "done"
    /\ nCalls' = nCalls + 1
    /\ UNCHANGED <<client, call, opts, req, signal, canceled, outcome, logged, genCalls>>
    /\ UNCHANGED beside

OptionsRaw ==
    { EmptyObj,
      "abortSignal" :> FreshSignal,
      "abortSignal" :> AbortedSignal,
      ("abortSignal" :> FreshSignal) @@ ("headers" :> <<H("A", <<"2">>)>>) }

\* got may refuse options it does not know before it sends anything
UnexpectedOption == ErrorValue("RequestError", "Unexpected option", JStr("ERR_GOT_REQUEST_ERROR"), NoResponse)

OutcomesRaw == OutcomesAll \cup {Rejected(UnexpectedOption)}

InitRaw == InitWith(ParamsCycle)

NextRaw ==
    \/ RawCall(PathsAll, OptionsRaw)
    \/ Abort
    \/ Settle(OutcomesRaw)
    \/ RawComplete
    \/ Return

SpecRaw == InitRaw /\ [][NextRaw]_vars

\* C17: when raw is called with an AbortSignal and the signal fires while
\* the request is in flight, the request is cancelled: the call ends with
\* the rejection of a cancelled request.
C17_RawCancelledByAbortSignal ==
    (pc = "done" /\ call.verb = "RAW" /\ signal = "fired") =>
        /\ canceled
        /\ result.kind = "throw"
        /\ result.value.t = "CancelError"

-----------------------------------------------------------------------------
(* Claims about the dispatched path and the failure log (under Spec) *)

\* C18: the request executor strips exactly one leading slash: a path that
\* begins with '/' is dispatched without that first character, and a path
\* without a leading slash is dispatched unchanged.
C18_OneLeadingSlashStripped ==
    (pc \in {"inflight", "settled", "done"}) =>
        IF Len(call.path) > 0 /\ call.path[1] = "/"
        THEN /\ Len(req.path) = Len(call.path) - 1
             /\ \A i \in 1..Len(req.path) : req.path[i] = call.path[i + 1]
        ELSE req.path = call.path

\* a path with two leading slashes has been dispatched with one
C18_Witness ==
    /\ pc = "inflight"
    /\ call.path = <<"/", "/", "todos">>
    /\ req.path = <<"/", "todos">>

\* the invocations of logFailure made during the call
FailureLogs == SelectSeq(logged, LAMBDA entry : entry.path = "logFailure")

\* C20: every failed call of get/post/put/patch/delete, whatever the kind
\* of failure, has invoked the failure path of the logger exactly once by the
\* time the exception reaches the caller.
C20_FailureLoggedExactlyOnce ==
    CallFailed => Len(FailureLogs) = 1

-----------------------------------------------------------------------------
(* The retry policy the constructor hands to got: clients constructed with  *)
(* and without a retry override in their transport options.                 *)

\* the retry limit got works with when the retry option names none
GotDefaultRetryLimit == 2

\* got merges the retry object it is given over its own defaults
RetryLimit(gotOptions) ==
    LET retry == gotOptions["retry"].v
    IN  IF HasKey(retry, "limit") THEN retry["limit"].v ELSE GotDefaultRetryLimit

RetryOverrides ==
    { JObj(EmptyObj), JObj("limit" :> JNum(0)), JObj("limit" :> JNum(1)), JObj("limit" :> JNum(3)) }

ParamsRetry ==
    { Params(u, config, options, FALSE, "none") :
        u \in {Undefined, ServerUrl},
        config \in {EmptyObj, "bearerToken" :> JChars(Chars_tok)},
        options \in {EmptyObj, "timeout" :> JNum(1000)}
                     \cup {"retry" :> r : r \in RetryOverrides} }

InitRetry == InitWith(ParamsRetry)

NextRetry ==
    \/ Call({"GET", "POST"}, {<<"todos">>}, {Payload}, {EmptyObj}, {NoHeaders})
    \/ Settle(OutcomesHeaders)
    \/ Complete
    \/ Return

SpecRetry == InitRetry /\ [][NextRetry]_vars

\* C19: a client constructed without a retry override configures got with a
\* zero-retries policy; the retry limit got works with differs from zero
\* only when the caller's transport options override retry.
C19_ZeroRetriesUnlessOverridden ==
    ~HasKey(client.init.options, "retry") => RetryLimit(client.gotOptions) = 0

-----------------------------------------------------------------------------
(* Further claims about body placement (under SpecBody) *)

\* the composed options hold a body under the key
Populated(options, k) == HasKey(options, k) /\ ~Nullish(options[k])

\* C21: the composed options have at most one of json and form populated,
\* whatever the verb, the payload and the caller's options; for POST, PUT
\* and PATCH with a defined payload P, without isForm json equals P and no
\* form body is present, and with isForm P is under form and no json body
\* is present.
C21_AtMostOneBodyPopulated ==
    Dispatched =>
        /\ ~(Populated(opts, "json") /\ Populated(opts, "form"))
        /\ (call.verb \in {"POST", "PUT", "PATCH"} /\ ~Nullish(call.data)) =>
              IF Truthy(Get(call.options, "isForm"))
              THEN Get(opts, "form") = call.data /\ ~Populated(opts, "json")
              ELSE Get(opts, "json") = call.data /\ ~Populated(opts, "form")

-----------------------------------------------------------------------------
(* Further claims about the error classifier (under Spec) *)

\* the error the catch block of #requestJson caught
CaughtError == IF outcome.kind = "rejected" THEN outcome.error ELSE JsonSyntaxError

JsonFamily(contentType) ==
    Includes(contentType, "application/problem+json") \/ Includes(contentType, "application/json")

\* the failure is neither a problem-details nor a plain-JSON failure: the
\* error is not an HTTP failure, or its body is not of a JSON content type,
\* or its body does not parse
GenericCase ==
    /\ CallFailed
    /\ IsError(CaughtError)
    /\ \/ CaughtError.t # "HTTPError"
       \/ ~JsonFamily(CaughtError.response.contentType)
       \/ JsonParse(CaughtError.response.body).threw

\* C22: a failure that is neither problem-details nor plain-JSON is thrown
\* as a RequestException whose statusCode is the status of the response when
\* there is one, else the error's transport-level code, and which has no
\* responseBody; a failure of JSON.parse while classifying is not thrown.
C22_GenericFailureStatusAndNoBody ==
    GenericCase =>
        /\ result.kind = "throw"
        /\ result.value.t = "RequestException"
        /\ result.value.innerError = CaughtError
        /\ result.value.statusCode =
              IF CaughtError.response.present
              THEN JNum(CaughtError.response.statusCode)
              ELSE CaughtError.code
        /\ result.value.responseBody = Undefined


-----------------------------------------------------------------------------
(* Further claims about log redaction (under SpecRedact) *)

\* some pattern of genericLogRedactionKeyPatterns.props matches the name
MatchesSensitivePattern(name) ==
    \E j \in 1..Len(PropPatterns) : Test(PropPatterns[j], name)

\* C25 as stated: after redact(options), no top-level key of options.json and
\* no top-level key of options.form whose name matches a sensitive pattern
\* keeps its original value, whichever of the two bodies are populated.
C25_BothBodiesRedacted ==
    (redaction.pc = "done" /\ redaction.op = "redact") =>
        \A k \in {"json", "form"} :
            HoldsObject(k) =>
                \A i \in 1..Len(EntriesIn(k)) :
                    MatchesSensitivePattern(EntriesIn(k)[i].k) =>
                        EntriesOut(k)[i].v # EntriesIn(k)[i].v


-----------------------------------------------------------------------------
(* The loggers (src/src/loggers.ts).  A log entry is one call made on the   *)
(* caller's Logger: its severity and the values it is given.  Text that is  *)
(* built from values is kept as those values, so that what a line shows can *)
(* be looked for.  Option objects live on a heap, because redaction writes  *)
(* into the object it is handed.                                            *)

\* the result of arithmetic on a missing timestamp
NaN == [t |-> "NaN"]

\* Number(a) - Number(b)
Minus(a, b) == IF a.t = "number" /\ b.t = "number" THEN JNum(a.v - b.v) ELSE NaN

\* tryStringifyJSON(data): '' for a missing value, else its JSON text
TryStringifyJSON(data) == IF ~Truthy(data) THEN JStr("") ELSE data

\* the timings got attaches to a response or an error; a phase that did not
\* happen is undefined
Timings(start, end, error) == JObj([start |-> start, end |-> end, error |-> error])
\* const { start, end, error } = timings ?? {}
TimingOf(timings, k) == IF Nullish(timings) THEN Undefined ELSE timings.v[k]

\* the names of the objects on the heap: the options the caller handed in,
\* and the copy fast-copy makes
CallerOptions == "options"
Clone == "clone"

\* mutant: no copy is made, the caller's object is worked on
FastCopy_SameObject(ref) == ref

\* copy(options): a new object
FastCopy(ref) == Clone

\* redact(options) on the heap: copy, redactSensitiveHeaders(clone),
\* redactSensitiveProps(clone), return clone
RedactOn(heap, ref) ==
    LET clone == FastCopy(ref)
        copied == [r \in DOMAIN heap \cup {clone} |-> IF r = clone THEN heap[ref] ELSE heap[r]]
        headersDone == [copied EXCEPT ![clone] = RedactSensitiveHeaders(@)]
        propsDone == [headersDone EXCEPT ![clone] = RedactSensitiveProps(@)]
    IN  [heap |-> propsDone, returned |-> clone]

\* mutant: every success is logged at info
SuccessLevel_AlwaysInfo(method) == "info"

\* method === 'GET' ? 'debug' : 'info'
SuccessLevel(method) == IF method = "GET" THEN "debug" ELSE "info"

\* GenericLogger.logSuccess(response, options): the message at the level of
\* the verb, then the redacted options at debug
GenericLogSuccess(heap, response, ref) ==
    LET options == heap[ref]
        redacted == RedactOn(heap, ref)
        redactedOptions == redacted.heap[redacted.returned]
    IN  [ heap |-> redacted.heap,
          entries |->
            << [ level |-> SuccessLevel(Get(options, "method")), what |-> "message",
                 method |-> Get(options, "method"), url |-> response.url,
                 statusCode |-> response.statusCode ],
               [ level |-> "debug", what |-> "request-options",
                 options |-> TryStringifyJSON(JObj(redactedOptions)) ] >> ]

\* err && end && start ? (err ?? end) - start : undefined
GenericDuration(timings) ==
    LET start == TimingOf(timings, "start")
        end == TimingOf(timings, "end")
        err == TimingOf(timings, "error")
    IN  IF Truthy(err) /\ Truthy(end) /\ Truthy(start)
        THEN Minus(Coalesce(err, end), start)
        ELSE Undefined

\* error.response?.statusCode ?? error.code
ResponseStatusOrCode(error) ==
    IF error.response.present THEN JNum(error.response.statusCode) ELSE error.code

\* GenericLogger.logFailure(error): one error entry with the verb, the url,
\* the status, the duration, the headers of error.options, the redacted
\* options with the context added, the message and the stack
GenericLogFailure(heap, error) ==
    LET options == heap[error.options]
        context == Get(options, "context")
        headers == Get(options, "headers")
        method == Get(options, "method")
        code == ResponseStatusOrCode(error)
        duration == GenericDuration(error.timings)
        redacted == RedactOn(heap, error.options)
        redactedOptions == redacted.heap[redacted.returned]
    IN  [ heap |-> redacted.heap,
          entries |->
            << [ level |-> "error", what |-> "failure",
                 method |-> method, url |-> error.requestUrl,
                 code |-> Coalesce(code, JStr("unknown statusCode")),
                 duration |-> Coalesce(duration, JStr(" - ")),
                 headers |-> TryStringifyJSON(headers),
                 options |-> TryStringifyJSON(JObj(Spread(redactedOptions, "context" :> context))),
                 message |-> error.message, stack |-> error.stack ] >> ]

\* Number(timings?.end) - Number(timings?.start)
PinoResponseTime(timings) == Minus(TimingOf(timings, "end"), TimingOf(timings, "start"))

\* PinoLogger.logSuccess(res): one entry at the level of the verb of the
\* request, with the verb, the url, the status and the response time
PinoLogSuccess(heap, res) ==
    [ heap |-> heap,
      entries |->
        << [ level |-> SuccessLevel(res.request.method), what |-> "message",
             method |-> res.request.method, url |-> res.request.url,
             statusCode |-> res.statusCode,
             responseTime |-> PinoResponseTime(res.timings) ] >> ]

\* PinoLogger.logFailure(error): one error entry with the verb, the url, the
\* status or code, the message and the response time
PinoLogFailure(heap, error) ==
    [ heap |-> heap,
      entries |->
        << [ level |-> "error", what |-> "failure",
             method |-> error.request.method, url |-> error.request.url,
             statusCode |-> ResponseStatusOrCode(error),
             message |-> error.message, code |-> error.code,
             responseTime |-> PinoResponseTime(error.timings) ] >> ]

\* NoOpLogger: both methods are empty
NoOpLog(heap) == [heap |-> heap, entries |-> <<>>]

\* this.#logger.logSuccess(response, options) of the configured HttpLogger
LogSuccess(logger, heap, response, ref) ==
    CASE logger = "GenericLogger" -> GenericLogSuccess(heap, response, ref)
      [] logger = "PinoLogger" -> PinoLogSuccess(heap, response)
      [] OTHER -> NoOpLog(heap)

\* this.#logger.logFailure(error) of the configured HttpLogger
LogFailure(logger, heap, error) ==
    CASE logger = "GenericLogger" -> GenericLogFailure(heap, error)
      [] logger = "PinoLogger" -> PinoLogFailure(heap, error)
      [] OTHER -> NoOpLog(heap)

\* what got attaches to the response of a request: the request with its
\* normalised options, the url, the timings
ResponseOf(response, method, url, timings) ==
    [ statusCode |-> response.statusCode, url |-> url, timings |-> timings,
      request |-> [method |-> method, url |-> url] ]

\* what got attaches to the error of a request: the options object of the
\* request, the request, the timings
ErrorOf(error, ref, method, url, timings) ==
    [ t |-> error.t, message |-> error.message, stack |-> error.stack, code |-> error.code,
      response |-> error.response, options |-> ref, requestUrl |-> url, timings |-> timings,
      request |-> [method |-> method, url |-> url] ]

-----------------------------------------------------------------------------
(* The loggers called on their own: every strategy, options with and        *)
(* without sensitive headers and bodies, every combination of timestamps,   *)
(* failures with and without a response.                                    *)

LoggersAll == {"NoOpLogger", "GenericLogger", "PinoLogger"}

LoggedUrl == JStr("http://localhost:38080/todos")

TimingsAll ==
    {Undefined}
    \cup { Timings(s, e, x) : s \in {Undefined, JNum(1000)}, e \in {Undefined, JNum(1200)},
                              x \in {Undefined, JNum(1100)} }

LoggedBodies ==
    { EmptyObj,
      "json" :> JObj(<<H(<<"p", "a", "s", "s", "w", "o", "r", "d">>, JStr("p"))>>),
      "form" :> JObj(<<H(<<"e", "m", "a", "i", "l">>, JStr("e"))>>),
      "json" :> JObj(<<H(<<"i", "g", "n", "o", "r", "e", "M", "e">>, JStr("ignoreMe"))>>) }

LoggedHeaders == {EmptyObj} \cup {"headers" :> h : h \in HeaderObjects}

LoggedOptions ==
    { Spread(Spread(h, b), "method" :> m) :
        h \in LoggedHeaders, b \in LoggedBodies, m \in {"GET", "POST", "DELETE"} }

LoggedFailures ==
    { HTTPError(Response(500, <<"text/plain">>, NoBody)), CancelError(NoResponse) }

\* redact(options)
LoggerRedactCall ==
    /\ logging.pc = "input"
    /\ LET done == RedactOn(logging.heap, CallerOptions)
       IN  logging' = [ pc |-> "done", op |-> "redact", logger |-> logging.logger,
                        input |-> logging.heap[CallerOptions], timings |-> logging.timings,
                        heap |-> done.heap, returned |-> done.returned, entries |-> <<>> ]
    /\ UNCHANGED <<client, pc, call, opts, req, signal, canceled, outcome, result, logged,
                   genCalls, nCalls, redaction, cached, double>>

\* logSuccess(response, options) for a response of the request the options
\* were composed for
LogSuccessCall ==
    /\ logging.pc = "input"
    /\ LET options == logging.heap[CallerOptions]
           response == ResponseOf(Response(200, <<"application/json">>, JsonBody(Null)),
                                  options["method"], LoggedUrl, logging.timings)
           done == LogSuccess(logging.logger, logging.heap, response, CallerOptions)
       IN  logging' = [ pc |-> "done", op |-> "logSuccess", logger |-> logging.logger,
                        input |-> options, timings |-> logging.timings,
                        heap |-> done.heap, returned |-> Undefined, entries |-> done.entries ]
    /\ UNCHANGED <<client, pc, call, opts, req, signal, canceled, outcome, result, logged,
                   genCalls, nCalls, redaction, cached, double>>

\* logFailure(error) for an error of the request the options were composed for
LogFailureCall ==
    /\ logging.pc = "input"
    /\ \E failure \in LoggedFailures :
         LET options == logging.heap[CallerOptions]
             error == ErrorOf(failure, CallerOptions, options["method"], LoggedUrl,
                              logging.timings)
             done == LogFailure(logging.logger, logging.heap, error)
         IN  logging' = [ pc |-> "done", op |-> "logFailure", logger |-> logging.logger,
                          input |-> options, timings |-> logging.timings,
                          heap |-> done.heap, returned |-> Undefined, entries |-> done.entries ]
    /\ UNCHANGED <<client, pc, call, opts, req, signal, canceled, outcome, result, logged,
                   genCalls, nCalls, redaction, cached, double>>

InitLoggers ==
    /\ Constructed({Params(ServerUrl, EmptyObj, EmptyObj, FALSE, "none")})
    /\ redaction = NoRedaction
    /\ cached = NoCached
    /\ double = NoDouble
    /\ logging \in { [pc |-> "input", logger |-> l, heap |-> (CallerOptions :> o), timings |-> t] :
                       l \in LoggersAll, o \in LoggedOptions, t \in TimingsAll }

NextLoggers ==
    \/ LoggerRedactCall
    \/ LogSuccessCall
    \/ LogFailureCall

SpecLoggers == InitLoggers /\ [][NextLoggers]_vars

-----------------------------------------------------------------------------
(* Claims about the loggers (under SpecLoggers) *)

LoggerDone == logging.pc = "done"

\* C23: after redact(options), logSuccess(response, options) or
\* logFailure(error), the options object the caller handed in, with its
\* headers and its json and form maps, is equal to what it was before, and
\* the object redact returns is not the caller's object.
C23_CallerOptionsNeverMutated ==
    LoggerDone =>
        /\ logging.heap[CallerOptions] = logging.input
        /\ logging.op = "redact" => logging.returned # CallerOptions

\* a call that redacts options in which the redaction has something to replace
C23_Witness ==
    /\ LoggerDone
    /\ logging.op \in {"redact", "logSuccess", "logFailure"}
    /\ logging.logger = "GenericLogger"
    /\ Redact(logging.input) # logging.input


\* the values of the entries of an object, none for anything else
ValuesOf(x) == IF x.t = "object" THEN {x.v[i].v : i \in 1..Len(x.v)} ELSE {}

\* every header value an entry shows: in its headers line and in the headers
\* of its request-options line
HeaderValuesShown(entry) ==
    (IF "headers" \in DOMAIN entry THEN ValuesOf(entry.headers) ELSE {})
    \cup (IF "options" \in DOMAIN entry /\ entry.options.t = "object"
          THEN ValuesOf(Get(entry.options.v, "headers"))
          ELSE {})

\* the values of the headers of the options whose name holds authorization,
\* in any case
AuthorizationValues(options) ==
    LET headers == Get(options, "headers")
    IN  IF headers.t # "object" THEN {}
        ELSE {headers.v[i].v : i \in {j \in 1..Len(headers.v) :
                                        Contains(headers.v[j].k, Name_authorization)}}

\* C24 as stated: for every failed request whose headers include an
\* authorization header, in any casing, the original value of that header
\* appears nowhere in the entry logFailure emits.
C24_FailureEntryHidesAuthorization ==
    (LoggerDone /\ logging.op = "logFailure") =>
        \A i \in 1..Len(logging.entries) :
            HeaderValuesShown(logging.entries[i]) \cap AuthorizationValues(logging.input) = {}


\* the duration a failure entry reports: the GenericLogger's duration, the
\* PinoLogger's responseTime
ReportedDuration(entry) ==
    IF "duration" \in DOMAIN entry THEN entry.duration ELSE entry.responseTime

\* the entry reports no number
DurationUnknown(entry) == ReportedDuration(entry).t # "number"

\* C26 as stated: the duration of a failure entry is end - start when the
\* transport recorded a completion timestamp and no error timestamp, and
\* error - start when it recorded an error timestamp; it is unknown only when
\* there is no start timestamp (or nothing to subtract it from).
C26_FailureDurationFromTimestamps ==
    (LoggerDone /\ logging.op = "logFailure") =>
        LET start == TimingOf(logging.timings, "start")
            end == TimingOf(logging.timings, "end")
            err == TimingOf(logging.timings, "error")
        IN  \A i \in 1..Len(logging.entries) :
              LET reported == ReportedDuration(logging.entries[i])
              IN  /\ (start # Undefined /\ err # Undefined) =>
                        reported = JNum(err.v - start.v)
                  /\ (start # Undefined /\ err = Undefined /\ end # Undefined) =>
                        reported = JNum(end.v - start.v)
                  /\ DurationUnknown(logging.entries[i]) =>
                        (start = Undefined \/ (end = Undefined /\ err = Undefined))


\* a logger that logs was handed a successful response
SuccessLogged ==
    LoggerDone /\ logging.op = "logSuccess" /\ logging.logger \in {"GenericLogger", "PinoLogger"}

\* the entries that carry the success message
SuccessEntries(entries) == SelectSeq(entries, LAMBDA e : e.what = "message")

\* the response the logger was handed
LoggedResponse ==
    ResponseOf(Response(200, <<"application/json">>, JsonBody(Null)),
               logging.input["method"], LoggedUrl, logging.timings)

\* the severity a strategy gives the success message of the logged request
LevelChosenBy(logger) ==
    SuccessEntries(LogSuccess(logger, (CallerOptions :> logging.input), LoggedResponse,
                              CallerOptions).entries)[1].level

-----------------------------------------------------------------------------
(* Concurrent calls of one CachedClient.  Each call of #get runs up to its  *)
(* await in one step; the promise of the underlying get settles at any      *)
(* later time; the rest of #get is a job the runtime queues when the        *)
(* promise settles, and jobs run one at a time, in the order they were      *)
(* queued.                                                                  *)

MaxConcurrent == 3

ConcurrentCalls == 1..MaxConcurrent

\* mutant: the runtime runs the job queued last
NextJob_Newest(jobs) == Len(jobs)

\* the job the runtime runs next: the one queued first
NextJob(jobs) == 1

\* new CachedClient(httpClient, logger, cache), no call made yet
NewConcurrentClient ==
    [ pc |-> "concurrent", cache |-> <<>>,
      calls |-> [i \in ConcurrentCalls |-> [state |-> "none"]],
      jobs |-> <<>>, settled |-> <<>> ]

\* what this.#httpClient.get(route) gives its caller for an outcome of the
\* transport
UnderlyingResult(route, settled) ==
    RequestJson(client, "GET", SanitizedPath(route),
                ProcessOptions("GET", Undefined, EmptyObj, NoHeaders), settled).result

\* get(route) or getNoCache(route) up to the await in #get, while other
\* calls are pending
ConcurrentGet(route) ==
    /\ cached.pc = "concurrent"
    /\ \E i \in ConcurrentCalls, name \in {"get", "getNoCache"} :
         /\ cached.calls[i].state = "none"
         /\ \A j \in 1..(i - 1) : cached.calls[j].state # "none"
         /\ LET hit == ServedFromCache(cached.cache, route, name = "getNoCache")
            IN  cached' = [ cached EXCEPT !.calls[i] =
                    IF hit
                    THEN [ state |-> "done", name |-> name, underlying |-> NoResult,
                           result |-> Returned(CacheGet(cached.cache, route)) ]
                    ELSE [ state |-> "awaiting", name |-> name, underlying |-> NoResult,
                           result |-> NoResult ] ]
    /\ UNCHANGED <<client, pc, call, opts, req, signal, canceled, outcome, result, logged,
                   genCalls, nCalls, redaction, double, logging>>

\* the promise of one underlying get settles: the rest of the #get that
\* awaits it is queued
UnderlyingSettles(route, Outcomes) ==
    /\ cached.pc = "concurrent"
    /\ \E i \in ConcurrentCalls, o \in Outcomes :
         /\ cached.calls[i].state = "awaiting"
         /\ cached' = [ cached EXCEPT
                !.calls[i].state = "queued",
                !.calls[i].underlying = UnderlyingResult(route, o),
                !.jobs = Append(@, i),
                !.settled = Append(@, i) ]
    /\ UNCHANGED <<client, pc, call, opts, req, signal, canceled, outcome, result, logged,
                   genCalls, nCalls, redaction, double, logging>>

\* #get after the await, run as the next job: this.#cache.set(route, result)
\* and return result, or the exception of the underlying get thrown on
ConcurrentResume(route) ==
    /\ cached.pc = "concurrent"
    /\ cached.jobs # <<>>
    /\ LET n == NextJob(cached.jobs)
           i == cached.jobs[n]
       IN  cached' = [ cached EXCEPT
               !.cache = CacheAfterCall(@, route, cached.calls[i].underlying),
               !.calls[i].state = "done",
               !.calls[i].result = cached.calls[i].underlying,
               !.jobs = SubSeq(@, 1, n - 1) \o SubSeq(@, n + 1, Len(@)) ]
    /\ UNCHANGED <<client, pc, call, opts, req, signal, canceled, outcome, result, logged,
                   genCalls, nCalls, redaction, double, logging>>

InitConcurrent ==
    /\ Constructed({Params(ServerUrl, EmptyObj, EmptyObj, FALSE, "none")})
    /\ redaction = NoRedaction
    /\ cached = NewConcurrentClient
    /\ double = NoDouble
    /\ logging = NoLogging

NextConcurrent ==
    \/ ConcurrentGet(Route_a)
    \/ UnderlyingSettles(Route_a, OutcomesCached)
    \/ ConcurrentResume(Route_a)

SpecConcurrent == InitConcurrent /\ [][NextConcurrent]_vars

-----------------------------------------------------------------------------
(* Claims about concurrent calls of the CachedClient (under SpecConcurrent) *)

\* the calls whose underlying get has returned a value, in the order in which
\* the underlying gets completed
ReturnedInOrder ==
    SelectSeq(cached.settled, LAMBDA i : cached.calls[i].underlying.kind = "return")

\* the values underlying gets have returned so far
UnderlyingValues ==
    {cached.calls[ReturnedInOrder[n]].underlying.value : n \in 1..Len(ReturnedInOrder)}

\* every call that was made is over
AllCompleted ==
    \A i \in ConcurrentCalls : cached.calls[i].state \in {"none", "done"}

\* C28: for any interleaving of concurrent get and getNoCache calls on one
\* route, the cache entry of the route is at every moment absent or the whole
\* value one underlying get returned; once all calls have completed it is
\* the value of the underlying get that was the last to complete with a
\* value; and what a call returns is the whole value of one underlying get.
C28_LastWriteWins ==
    cached.pc = "concurrent" =>
        /\ Route_a \in DOMAIN cached.cache => cached.cache[Route_a] \in UnderlyingValues
        /\ (AllCompleted /\ ReturnedInOrder # <<>>) =>
              /\ Route_a \in DOMAIN cached.cache
              /\ cached.cache[Route_a] =
                    cached.calls[ReturnedInOrder[Len(ReturnedInOrder)]].underlying.value
        /\ (AllCompleted /\ ReturnedInOrder = <<>>) => Route_a \notin DOMAIN cached.cache
        /\ \A i \in ConcurrentCalls :
              (cached.calls[i].state = "done" /\ cached.calls[i].result.kind = "return") =>
                  cached.calls[i].result.value \in UnderlyingValues

\* underlying gets completed in another order than they were started, two of
\* them returned different values, a getNoCache was among the calls, and all
\* calls are over
C28_Witness ==
    /\ cached.pc = "concurrent"
    /\ AllCompleted
    /\ Len(ReturnedInOrder) >= 2
    /\ cached.calls[ReturnedInOrder[1]].underlying # cached.calls[ReturnedInOrder[2]].underlying
    /\ \E n \in 1..(Len(cached.settled) - 1) : cached.settled[n] > cached.settled[n + 1]
    /\ \E i \in ConcurrentCalls : cached.calls[i].state = "done" /\ cached.calls[i].name = "getNoCache"


-----------------------------------------------------------------------------
(* The client with a logger: clients constructed with credentials and a     *)
(* logger of either kind, calls with and without a sensitive body, outcomes *)
(* of both kinds.  What the logger emits for a call follows from the        *)
(* invocation the call made and the objects it handed over.                 *)

\* the header names of the model as the characters the patterns are matched in
NameChars(n) ==
    CASE n = "authorization" -> Name_authorization
      [] n = "Authorization" -> Name_Authorization
      [] n = "accept" -> Name_accept
      [] OTHER -> <<n>>

\* a headers object of the client as the object the logger is handed
LoggedHeaderObject(h) == JObj([i \in 1..Len(h) |-> H(NameChars(h[i].k), JChars(h[i].v))])

\* the options #requestJson hands to logSuccess: the composed options
SuccessOptionsOf(options) ==
    Spread(options, "headers" :> LoggedHeaderObject(HeadersOf(options)))

\* error.options of got: the options of the request merged into the defaults
\* of the instance, with the merged headers and the context of the instance
ErrorOptionsOf(c, r, options) ==
    Spread(Spread(options, "headers" :> LoggedHeaderObject(r.headers)),
           "context" :> JObj(Get(c.gotOptions, "context")))

\* the timings of a request that ran to its end
TransportTimings == Timings(JNum(1000), JNum(1200), Undefined)

\* the entries the configured logger emitted during the call
Emitted ==
    IF logged = <<>> THEN <<>>
    ELSE IF logged[1].path = "logSuccess"
    THEN LogSuccess(client.logger, (CallerOptions :> SuccessOptionsOf(opts)),
                    ResponseOf(outcome.response, call.verb, LoggedUrl, TransportTimings),
                    CallerOptions).entries
    ELSE LogFailure(client.logger, (CallerOptions :> ErrorOptionsOf(client, req, opts)),
                    ErrorOf(outcome.error, CallerOptions, call.verb, LoggedUrl,
                            TransportTimings)).entries

ConfigsLog ==
    { [basicAuthUserName |-> JChars(Chars_myname), basicAuthPassword |-> JChars(Chars_1234)],
      [bearerToken |-> JChars(Chars_tok)] }

ParamsLog ==
    { Params(ServerUrl, config, EmptyObj, FALSE, logger) :
        config \in ConfigsLog, logger \in {"Pino", "Console", "none"} }

DatasLog == {Undefined, JObj(<<H(<<"p", "a", "s", "s", "w", "o", "r", "d">>, JStr("p"))>>)}

OutcomesLog ==
    { Fulfilled(Response(200, <<"application/json">>, JsonBody(Payload))),
      Fulfilled(Response(200, <<"text/plain">>, TextBody("200 OK"))),
      Rejected(HTTPError(Response(500, <<"text/plain">>, TextBody("500")))),
      Rejected(NetworkError) }

InitLog == InitWith(ParamsLog)

NextLog ==
    \/ Call({"GET", "POST"}, PathsAll, DatasLog, {EmptyObj}, {NoHeaders})
    \/ Settle(OutcomesLog)
    \/ Complete
    \/ Return

SpecLog == InitLog /\ [][NextLog]_vars

-----------------------------------------------------------------------------
(* Claims about what the configured logger emits (under SpecLog) *)

\* the text w stands in the text s
Within(s, w) ==
    \E i \in 0..(Len(s) - Len(w)) : SubSeq(s, i + 1, i + Len(w)) = w

\* the values of the context an entry shows in its request-options line
ContextValuesShown(entry) ==
    IF "options" \in DOMAIN entry /\ entry.options.t = "object"
       /\ HasKey(entry.options.v, "context") /\ entry.options.v["context"].t = "object"
    THEN LET context == entry.options.v["context"].v
         IN  {context[k] : k \in DOMAIN context}
    ELSE {}

\* the credentials given at construction
Credentials ==
    { Config[k].v : k \in {"basicAuthUserName", "basicAuthPassword", "bearerToken"}
                           \cap DOMAIN Config }

\* C29 as stated: no credential of the construction-time config appears in
\* clear text in an entry the configured logger emits, on the success path or
\* the failure path, neither in the headers nor in the context the entry shows.
C29_NoCredentialInLogs ==
    \A i \in 1..Len(Emitted) :
        \A value \in HeaderValuesShown(Emitted[i]) \cup ContextValuesShown(Emitted[i]) :
            \A secret \in Credentials :
                ~(value.t = "chars" /\ Within(value.v, secret))


-----------------------------------------------------------------------------
(* Claims about the invocations of the logger during a call (under Spec) *)

\* the invocations of logSuccess made during the call
SuccessLogs == SelectSeq(logged, LAMBDA entry : entry.path = "logSuccess")

CallOver == pc = "done"

\* C30 as stated: during a call of get/post/put/patch/delete the success path
\* of the logger is invoked at most once and only when the call returns a
\* parsed payload: no call both logs a success and ends by throwing, and the
\* success and the failure path are never both invoked for one call.
C30_SuccessLoggedOnlyForReturningCalls ==
    CallOver =>
        /\ Len(SuccessLogs) <= 1
        /\ SuccessLogs # <<>> => result.kind = "return"
        /\ ~(SuccessLogs # <<>> /\ FailureLogs # <<>>)

\* C30, amended: the success path is invoked at most once, and exactly for
\* the calls whose transport promise was fulfilled, before the body is
\* parsed; the success and the failure path are never both invoked for one
\* call; every call that returns has logged a success; a call that has logged
\* a success ends by throwing only when the body of the response is not valid
\* JSON, and then it throws a RequestException around the parse error.
C30_SuccessLoggedWhenTransportFulfilled ==
    CallOver =>
        /\ Len(SuccessLogs) <= 1
        /\ SuccessLogs # <<>> <=> outcome.kind = "fulfilled"
        /\ ~(SuccessLogs # <<>> /\ FailureLogs # <<>>)
        /\ result.kind = "return" => SuccessLogs # <<>>
        /\ (SuccessLogs # <<>> /\ result.kind = "throw") =>
              /\ ~(outcome.response.body.str /\ outcome.response.body.valid)
              /\ result.value.t = "RequestException"
              /\ result.value.innerError.t = "SyntaxError"

\* a call whose response had status 200 and a body that is not JSON: the
\* success was logged and the call threw
C30_Witness ==
    /\ CallOver
    /\ SuccessLogs # <<>>
    /\ result.kind = "throw"

====
